---- MODULE Spec2Model ----
(***************************************************************************)
(* A model of the retrieval pipeline of the e-commerce support chatbot:    *)
(* RAGRetrieverAgent (src/src/agents/rag_agent.py), the LLM processors     *)
(* (src/src/llm_factory.py), MilvusManager's embedding fallback            *)
(* (src/src/milvus_setup.py) and TextProcessor.chunk_text                  *)
(* (src/src/text_processor.py).                                            *)
(*                                                                         *)
(* Python strings are TLA+ strings; TLC evaluates Len, SubSeq and \o on    *)
(* them, so lower(), split() and the substring test "w in text" are        *)
(* computed character by character.  Scores are kept in hundredths         *)
(* (0.3 is 30, 1.0 is 100).                                                *)
(***************************************************************************)
EXTENDS Integers, Sequences, FiniteSets, TLC

VARIABLES
    milvus_connected,   \* RAGRetrieverAgent.milvus_connected
    collection,         \* RAGRetrieverAgent.collection: "None" or "loaded"
    embedding_model,    \* RAGRetrieverAgent.embedding_model: "None" or "loaded"
    llm_processor,      \* RAGRetrieverAgent.llm_processor: [provider, client]
    db_file,            \* data/vector_database.json: [state, documents]
    call,               \* the last public call: its arguments, what it returned or raised,
                        \* and which backends it touched
    remoteFailedBefore, \* an earlier search call on this instance found the remote tier failing
    text_blank,         \* chunk_text: "not text.strip()" holds for the argument
    metadata,           \* chunk_text: the metadata argument
    sentences,          \* chunk_text: the sentences of the cleaned text
    chunk_pc,           \* chunk_text: "idle", "start", "loop" or "done"
    sentence_idx,       \* chunk_text: index of the sentence the for loop takes next
    current_chunk,      \* chunk_text: the buffered sentences
    current_word_count, \* chunk_text: the word count kept for the buffer
    chunk_number,       \* chunk_text: the number the next chunk gets
    chunks,             \* chunk_text: the chunks appended so far
    mm_embedding_model, \* MilvusManager.embedding_model: "None" or "loaded"
    mm_embedding_dim,   \* MilvusManager.embedding_dim
    mm_llm_processor,   \* MilvusManager.llm_processor: [provider, client]
    embed_call,         \* the last generate_embedding call: whose, its text, what it
                        \* returned or raised, and where the vector came from
    embed_returned,     \* <<whose, text, vector>> of every generate_embedding call that
                        \* returned while the instance's model was unavailable or raising
    mock_file,          \* data/mock_embeddings.json: [state, chunks]
    mm_collection,      \* MilvusManager.collection: "None" or "loaded"
    hash_seed,          \* the salt of str hashes in the running Python process
    store_call,         \* the last call on a local store: its arguments and what it
                        \* returned or raised
    top1_first,         \* the first search of a written store that found something:
                        \* who searched, the query, and the id of the best result
    instances,          \* LLMProcessorFactory._instances: key -> processor
    handed_out,         \* <<lower-cased provider, model, object>> of every processor
                        \* get_processor returned since the last clear_instances
    rag_agent_instance, \* rag_agent._rag_agent_instance: 0 (None) or the agent object
    agents_built,       \* the number of RAGRetrieverAgent objects constructed so far
    agents_used,        \* the agent objects ecom_rag_tool has handed a query to
    orders,             \* OrderStatusAgent.orders
    returns,            \* ReturnAgent.returns
    products,           \* ProductAgent.products
    app_call            \* the last call on the application: its arguments and what it
                        \* returned or raised

agentVars == <<milvus_connected, collection, embedding_model, llm_processor, db_file,
               call, remoteFailedBefore>>
chunkVars == <<text_blank, metadata, sentences, chunk_pc, sentence_idx, current_chunk,
               current_word_count, chunk_number, chunks>>
embedVars == <<mm_embedding_model, mm_embedding_dim, mm_llm_processor, embed_call,
               embed_returned>>
storeVars == <<mock_file, mm_collection, hash_seed, store_call, top1_first>>
appVars == <<instances, handed_out, rag_agent_instance, agents_built, agents_used,
             orders, returns, products, app_call>>
vars == <<agentVars, chunkVars, embedVars, storeVars, appVars>>

-----------------------------------------------------------------------------
(* Python string primitives *)

\* the lower-case letter of every upper-case letter
LowerMap ==
    [A |-> "a", B |-> "b", C |-> "c", D |-> "d", E |-> "e", F |-> "f", G |-> "g",
     H |-> "h", I |-> "i", J |-> "j", K |-> "k", L |-> "l", M |-> "m", N |-> "n",
     O |-> "o", P |-> "p", Q |-> "q", R |-> "r", S |-> "s", T |-> "t", U |-> "u",
     V |-> "v", W |-> "w", X |-> "x", Y |-> "y", Z |-> "z"]

\* str.lower() on s[lo..hi], by halves, character by character
RECURSIVE LowerRange(_, _, _)
LowerRange(s, lo, hi) ==
    IF lo > hi THEN ""
    ELSE IF lo = hi
         THEN IF SubSeq(s, lo, lo) \in DOMAIN LowerMap THEN LowerMap[SubSeq(s, lo, lo)]
              ELSE SubSeq(s, lo, lo)
    ELSE LET mid == (lo + hi) \div 2 IN LowerRange(s, lo, mid) \o LowerRange(s, mid + 1, hi)

\* str.lower()
Lower(s) == LowerRange(s, 1, Len(s))

IsSpace(c) == c \in {" ", "\t", "\n"}

\* the positions where a word (a maximal run of non-whitespace) starts
WordStarts(s) ==
    { i \in 1..Len(s) : /\ ~IsSpace(SubSeq(s, i, i))
                        /\ (i = 1 \/ IsSpace(SubSeq(s, i - 1, i - 1))) }

\* the word of s that starts at i: it ends where the run of non-whitespace ends
WordAt(s, i) ==
    SubSeq(s, i, CHOOSE j \in i..Len(s) :
                    /\ \A k \in i..j : ~IsSpace(SubSeq(s, k, k))
                    /\ (j = Len(s) \/ IsSpace(SubSeq(s, j + 1, j + 1))))

\* the words that start at the positions `starts`, in order
WordsAt(s, starts) ==
    [ k \in 1..Cardinality(starts) |->
        WordAt(s, CHOOSE i \in starts : Cardinality({ j \in starts : j < i }) = k - 1) ]

\* str.split(): the words of s, in order
Split(s) == WordsAt(s, WordStarts(s))

\* the substring test "w in text"
Contains(text, w) ==
    \/ Len(w) = 0
    \/ \E i \in 1..(Len(text) - Len(w) + 1) : SubSeq(text, i, i + Len(w) - 1) = w

Min(a, b) == IF a <= b THEN a ELSE b

\* seq[:n]
Take(seq, n) == SubSeq(seq, 1, Min(n, Len(seq)))

-----------------------------------------------------------------------------
(* Data: queries, stored documents, remote hits *)

\* a query argument: a Python str, or a value of another type (here the int 123)
StrQuery(s) == [isstr |-> TRUE, s |-> s]
NonStringQuery == [isstr |-> FALSE, s |-> "123"]

QueryStrings ==
    { "zzz_no_match_xyz", "What is your return policy?", "track my ORDER", "" }

Queries == { StrQuery(s) : s \in QueryStrings } \cup { NonStringQuery }

TopKs == {1, 5}

Meta(filename, topic, source) == [filename |-> filename, topic |-> topic, source |-> source]

\* a stored document of data/vector_database.json; haskeys is FALSE for a
\* document without a 'text' or 'metadata' key
Doc(id, text, meta) == [id |-> id, text |-> text, metadata |-> meta, haskeys |-> TRUE]

DocReturns ==
    Doc(1, "Our return policy allows customers to return items within 30 days of purchase.",
        Meta("return_policy.pdf", "returns", "policy_documents"))
DocShipping ==
    Doc(2, "We offer several shipping options: Standard shipping (5-7 business days) for $5.99.",
        Meta("shipping_guide.pdf", "shipping", "customer_service"))

\* the states of data/vector_database.json
DbFiles ==
    { [state |-> "absent", documents |-> <<>>],
      [state |-> "corrupt", documents |-> <<>>],
      [state |-> "ok", documents |-> <<>>],
      [state |-> "ok",
       documents |->
          << DocShipping,
             Doc(7, "Frequently Asked Questions: Q: Can I track my order? A: Yes.",
                 Meta("faq.pdf", "faq", "customer_service")),
             DocReturns,
             Doc(3, "Customer service is available Monday through Friday.",
                 Meta("contact_info.pdf", "support", "customer_service")) >>],
      [state |-> "ok",
       documents |->
          << DocReturns,
             [id |-> 9, text |-> "", metadata |-> Meta("", "", ""), haskeys |-> FALSE] >>] }

SearchResult(id, text, meta, score) ==
    [id |-> id, text |-> text, metadata |-> meta, similarity_score |-> score]

\* stored texts of exactly 200 and of 201 characters
LongText200 ==
    "Extended warranty plans cover manufacturing defects for two years from" \o
    " the date of delivery, and claims are filed through the account page u" \o
    "nder the order history section of the store site by the buy."
LongText201 ==
    "International orders are shipped with a tracked courier service, custo" \o
    "ms duties and import taxes are charged by the destination country and " \o
    "are paid by the recipient when the parcel is delivered to th."

\* what collection.search delivers: it raises, finds nothing, or returns hits
\* (at most `limit` of them, best first); hit.score is the cosine similarity,
\* which is negative for vectors that point apart
RemoteHits ==
    << SearchResult(101, "Returns are accepted within 30 days of purchase.",
                    Meta("return_policy.pdf", "returns", "policy_documents"), 93),
       SearchResult(102, "Gift wrapping is available for $3.99.",
                    Meta("faq.pdf", "faq", "customer_service"), 41),
       SearchResult(103, LongText200,
                    Meta("warranty_info.pdf", "warranty", "policy_documents"), 12),
       SearchResult(104, LongText201,
                    Meta("shipping_guide.pdf", "shipping", "customer_service"), -7) >>

RemoteOutcomes == {"raise", "empty", "hits"}

\* what embedding_model.encode does: it returns a vector or raises
EncodeOutcomes == {"vector", "raise"}

-----------------------------------------------------------------------------
(* RAGRetrieverAgent: construction *)

\* _get_or_create_collection; hasCollection is "yes", "no" or "raise"
GetOrCreateCollection(connected, hasCollection) ==
    IF ~connected THEN "None"
    ELSE IF hasCollection = "yes" THEN "loaded"
    ELSE "None"

-----------------------------------------------------------------------------
(* RAGRetrieverAgent: the three search tiers *)

AttributeErrorLower == "'int' object has no attribute 'lower'"

\* the keyword score of one document (lines 316-325), in hundredths
RECURSIVE WordScore(_, _, _, _, _)
WordScore(words, i, text, topic, filename) ==
    IF i > Len(words) THEN 0
    ELSE (IF Contains(text, words[i]) THEN 30 ELSE 0)
       + (IF Contains(topic, words[i]) THEN 50 ELSE 0)
       + (IF Contains(filename, words[i]) THEN 40 ELSE 0)
       + WordScore(words, i + 1, text, topic, filename)

\* lines 312-325; query_words is query_lower.split()
DocScore(query_words, doc) ==
    WordScore(query_words, 1, Lower(doc.text),
              Lower(doc.metadata.topic), Lower(doc.metadata.filename))

\* lines 327-328: the pair is kept when the score is positive
ScoredPair(score, doc) ==
    IF score > 0 THEN << [score |-> score, doc |-> doc] >> ELSE <<>>

\* the loop of lines 311-328: the (score, doc) pairs with a positive score
RECURSIVE ScoredResults(_, _, _)
ScoredResults(documents, i, query_words) ==
    IF i > Len(documents) THEN <<>>
    ELSE ScoredPair(DocScore(query_words, documents[i]), documents[i])
         \o ScoredResults(documents, i + 1, query_words)

\* list.sort(key=score, reverse=True): a stable sort, so pairs of equal score
\* keep their order
RECURSIVE InsertDesc(_, _)
InsertDesc(sorted, x) ==
    IF sorted = <<>> THEN <<x>>
    ELSE IF Head(sorted).score >= x.score
         THEN <<Head(sorted)>> \o InsertDesc(Tail(sorted), x)
         ELSE <<x>> \o sorted

RECURSIVE SortDesc(_, _, _)
SortDesc(pairs, i, acc) ==
    IF i > Len(pairs) THEN acc ELSE SortDesc(pairs, i + 1, InsertDesc(acc, pairs[i]))

\* lines 334-341: the best three pairs as SearchResults, the score capped at 1.0
FileTopN == 3
FileSearchResults(sorted) ==
    [ j \in 1..Min(FileTopN, Len(sorted)) |->
        SearchResult(sorted[j].doc.id, sorted[j].doc.text, sorted[j].doc.metadata,
                     Min(sorted[j].score, 100)) ]

\* lines 343-347: the results are returned when there is at least one
FileTierFound(search_results) ==
    [found |-> search_results # <<>>, results |-> search_results, opened |-> TRUE]

\* the try block of _mock_search_results (lines 298-351): the results it
\* returns (found), or nothing when the file is absent, unreadable, holds a
\* document without its keys, matches nothing, or the query has no lower()
FileTier(query, file) ==
    IF file.state = "absent" THEN [found |-> FALSE, results |-> <<>>, opened |-> FALSE]
    ELSE IF file.state = "corrupt" THEN [found |-> FALSE, results |-> <<>>, opened |-> TRUE]
    ELSE IF ~query.isstr THEN [found |-> FALSE, results |-> <<>>, opened |-> TRUE]
    ELSE IF \E i \in 1..Len(file.documents) : ~file.documents[i].haskeys
         THEN [found |-> FALSE, results |-> <<>>, opened |-> TRUE]
    ELSE FileTierFound(FileSearchResults(
             SortDesc(ScoredResults(file.documents, 1, Split(Lower(query.s))), 1, <<>>)))

\* the hardcoded records (lines 354-373)
mock_results ==
    << SearchResult(1,
         "Our return policy allows returns within 30 days of purchase. Items must be in original condition with tags attached. Refunds are processed within 5-7 business days.",
         Meta("return_policy.pdf", "returns", "policy_documents"), 85),
       SearchResult(2,
         "For order tracking, please use your order number and email address on our tracking page. Orders typically ship within 1-2 business days and arrive within 5-7 days.",
         Meta("shipping_guide.pdf", "shipping", "customer_service"), 78),
       SearchResult(3,
         "Our customer service team is available Monday-Friday 9AM-6PM EST. You can reach us via email at support@ecommerce.com or phone at 1-800-SHOP-NOW.",
         Meta("contact_info.pdf", "support", "customer_service"), 72) >>

\* any(word in result.text.lower() for word in words)
AnyWordIn(words, text) == \E i \in 1..Len(words) : Contains(text, words[i])

\* (variant of RelevantOrFirst: no fallback to the first record)
RelevantOrFirst_NoFirst(relevant_results) == Take(relevant_results, 3)

\* line 383: relevant_results[:3] if relevant_results else mock_results[:1]
RelevantOrFirst(relevant_results) ==
    IF relevant_results # <<>> THEN Take(relevant_results, 3) ELSE Take(mock_results, 1)

\* _mock_search_results after its try block: ft is what the file tier gave;
\* lines 375-383 keep the hardcoded records some query word occurs in
MockSearchAfterFile(ft, query) ==
    IF ft.found
    THEN [raised |-> FALSE, error |-> "", results |-> ft.results, tier |-> "file",
          opened |-> ft.opened]
    ELSE IF ~query.isstr
    THEN [raised |-> TRUE, error |-> AttributeErrorLower, results |-> <<>>, tier |-> "none",
          opened |-> ft.opened]
    ELSE [raised |-> FALSE, error |-> "",
          results |-> RelevantOrFirst(
                          SelectSeq(mock_results,
                                    LAMBDA r : AnyWordIn(Split(Lower(query.s)), Lower(r.text)))),
          tier |-> "default", opened |-> ft.opened]

\* _mock_search_results (lines 295-383): what it returns or raises
MockSearchResults(query, file) == MockSearchAfterFile(FileTier(query, file), query)

\* MockSearchResults for every query and file of the model, computed once
MockSearchMemo == { <<q, f, MockSearchResults(q, f)>> : q \in Queries, f \in DbFiles }

\* generate_embedding as _search_milvus_collection uses it (lines 225-240):
\* TRUE when it yields a vector, FALSE when it raises (text.encode() of a
\* value that is no str)
EmbeddingOk(query, model, encode) ==
    IF model = "loaded" /\ encode = "vector" THEN TRUE ELSE query.isstr

\* (variant of SearchMilvusCollection: an exception of collection.search is
\* not caught)
SearchMilvusCollection_Surfaces(query, top_k, model, encode, remote, fallback) ==
    IF ~EmbeddingOk(query, model, encode) \/ remote = "empty"
    THEN fallback
            @@ [attempted |-> TRUE, searched |-> remote = "empty", failed |-> remote # "empty"]
    ELSE IF remote = "hits"
    THEN [raised |-> FALSE, error |-> "", results |-> Take(RemoteHits, top_k),
          tier |-> "remote", opened |-> FALSE,
          attempted |-> TRUE, searched |-> TRUE, failed |-> FALSE]
    ELSE [raised |-> TRUE, error |-> "collection.search failed", results |-> <<>>,
          tier |-> "none", opened |-> FALSE,
          attempted |-> TRUE, searched |-> TRUE, failed |-> TRUE]

\* _search_milvus_collection (lines 252-293); fallback is what
\* self._mock_search_results(query) returns or raises
SearchMilvusCollection(query, top_k, model, encode, remote, fallback) ==
    IF ~EmbeddingOk(query, model, encode)
    THEN fallback @@ [attempted |-> TRUE, searched |-> FALSE, failed |-> TRUE]
    ELSE IF remote = "hits"
    THEN [raised |-> FALSE, error |-> "", results |-> Take(RemoteHits, top_k),
          tier |-> "remote", opened |-> FALSE,
          attempted |-> TRUE, searched |-> TRUE, failed |-> FALSE]
    ELSE fallback @@ [attempted |-> TRUE, searched |-> TRUE, failed |-> remote = "raise"]

\* (variant of UseRemote: the collection is not looked at)
UseRemote_ConnectedOnly(connected, coll) == connected

\* the condition of line 245
UseRemote(connected, coll) == connected /\ coll # "None"

\* (variant of ConnectedAfterSearch: a failing remote tier degrades the instance)
ConnectedAfterSearch_Degrades(connected, sr) == connected /\ ~sr.failed

\* milvus_connected after a search: no line of search_documents,
\* _search_milvus_collection (its except clause, lines 291-293, included) or
\* _mock_search_results assigns it
ConnectedAfterSearch(connected, sr) == connected

\* search_documents (lines 242-250); mock is what
\* self._mock_search_results(query) returns or raises
SearchDocumentsWith(useRemote, query, top_k, model, encode, remote, mock) ==
    IF useRemote
    THEN SearchMilvusCollection(query, top_k, model, encode, remote, mock)
    ELSE mock @@ [attempted |-> FALSE, searched |-> FALSE, failed |-> FALSE]

SearchDocuments(query, top_k, connected, coll, model, encode, remote, file) ==
    SearchDocumentsWith(UseRemote(connected, coll), query, top_k, model, encode, remote,
                        (CHOOSE m \in MockSearchMemo : m[1] = query /\ m[2] = file)[3])

-----------------------------------------------------------------------------
(* The text-generation backend (llm_factory.py) and synthesize_answer *)

\* the tests of lines 48-55 on last_message.lower()
MockCompletionLowered(m) ==
    IF Contains(m, "return policy")
    THEN "Our return policy allows returns within 30 days of purchase. Items must be in original condition with tags attached. Refunds are processed within 5-7 business days."
    ELSE IF Contains(m, "shipping")
    THEN "We offer standard shipping (5-7 business days) and expedited shipping (2-3 business days). Free shipping on orders over $50."
    ELSE IF Contains(m, "order")
    THEN "You can track your order using the order number and email address provided at checkout. Orders typically ship within 1-2 business days."
    ELSE "Thank you for your question. I'm here to help with information about our policies, orders, returns, and products."

\* the branch without a client (lines 45-55 and 109-119)
MockCompletion(last_message) == MockCompletionLowered(Lower(last_message))

\* "\n\n".join(context_parts) (lines 391-395)
RECURSIVE ContextFrom(_, _)
ContextFrom(results, i) ==
    IF i > Len(results) THEN ""
    ELSE "Document " \o ToString(i) \o ": " \o results[i].text
         \o (IF i < Len(results) THEN "\n\n" ELSE "")
         \o ContextFrom(results, i + 1)

\* the user message of line 405
UserContent(query_s, results) ==
    "Question: " \o query_s \o "\n\nContext:\n" \o ContextFrom(results, 1)
    \o "\n\nPlease provide a helpful answer based on the context above."

\* the result lists synthesize_answer is called with directly
ResultLists == { <<>>, Take(mock_results, 1), mock_results, RemoteHits }

\* MockCompletion for every user message of the model (a query and a
\* non-empty result list synthesize_answer can receive), computed once
MockCompletionMemo ==
    { << content, MockCompletion(content) >> :
        content \in { UserContent(q, rs) :
                        q \in QueryStrings \cup {NonStringQuery.s},
                        rs \in (ResultLists \cup { m[3].results : m \in MockSearchMemo }
                                            \cup { Take(RemoteHits, k) : k \in TopKs })
                               \ { <<>> } } }

\* OpenAIProcessor.generate_completion and AnthropicProcessor.generate_completion
\* (api is what the text-generation API does when it is called: "ok" or
\* "raise"): both catch every exception of the API call and return the apology
GenerateCompletion(llm, last_message, api) ==
    IF llm.client = "None"
    THEN [raised |-> FALSE,
          text |-> (CHOOSE m \in MockCompletionMemo : m[1] = last_message)[2],
          failed |-> FALSE]
    ELSE IF api = "ok"
    THEN [raised |-> FALSE, text |-> "You can return items within 30 days.", failed |-> FALSE]
    ELSE [raised |-> FALSE,
          text |-> "I apologize, but I'm unable to process your request at the moment. Please try again later or contact customer support.",
          failed |-> TRUE]

\* lines 409-415: the response is returned; an exception of
\* generate_completion gives the top result behind the attribution phrase
AnswerFrom(response, results) ==
    IF response.raised
    THEN [answer |-> "Based on our documentation: " \o results[1].text, llmCalled |-> TRUE,
          llmFailed |-> TRUE]
    ELSE [answer |-> response.text, llmCalled |-> TRUE, llmFailed |-> response.failed]

\* (variant of SynthesizeAnswer: no check for an empty result list)
SynthesizeAnswer_NoEmptyCheck(query_s, results, llm, api) ==
    AnswerFrom(GenerateCompletion(llm, UserContent(query_s, SubSeq(results, 1, 1)), api),
               results)

\* synthesize_answer (lines 385-415)
SynthesizeAnswer(query_s, results, llm, api) ==
    IF results = <<>>
    THEN [answer |-> "I couldn't find any relevant information for your query. Please contact customer service for assistance.",
          llmCalled |-> FALSE, llmFailed |-> FALSE]
    ELSE AnswerFrom(GenerateCompletion(llm, UserContent(query_s, results), api), results)

-----------------------------------------------------------------------------
(* process_query (lines 417-446) *)

SourceTextLimit == 200

\* (variant of SourceText: a text of exactly 200 characters is cut as well)
SourceText_CutsAtLimit(text) ==
    IF Len(text) >= SourceTextLimit THEN SubSeq(text, 1, SourceTextLimit) \o "..." ELSE text

\* result.text[:200] + "..." if len(result.text) > 200 else result.text
SourceText(text) ==
    IF Len(text) > SourceTextLimit THEN SubSeq(text, 1, SourceTextLimit) \o "..." ELSE text

Sources(results) ==
    [ i \in 1..Len(results) |->
        [id |-> results[i].id, text |-> SourceText(results[i].text),
         metadata |-> results[i].metadata,
         similarity_score |-> results[i].similarity_score] ]

ProcessQueryTopK == 5

NoSynth == [answer |-> "", llmCalled |-> FALSE, llmFailed |-> FALSE]

\* lines 426-439: the success envelope
SuccessEnvelope(query, sr, sy) ==
    [envelope |-> [status |-> "success", answer |-> sy.answer,
                   sources |-> Sources(sr.results), query |-> query],
     search |-> sr, synth |-> sy]

\* (variant of ProcessQueryAfterSearch: an exception of the search stage is not
\* caught)
ProcessQueryAfterSearch_NoCatch(query, sr, llm, api) ==
    IF sr.raised
    THEN [envelope |-> [status |-> "none"], search |-> sr, synth |-> NoSynth]
    ELSE SuccessEnvelope(query, sr, SynthesizeAnswer(query.s, sr.results, llm, api))

\* process_query after line 421: sr is what search_documents returned or
\* raised; an exception ends in the error envelope of lines 441-446
ProcessQueryAfterSearch(query, sr, llm, api) ==
    IF sr.raised
    THEN [envelope |-> [status |-> "error", error |-> sr.error, query |-> query],
          search |-> sr, synth |-> NoSynth]
    ELSE SuccessEnvelope(query, sr, SynthesizeAnswer(query.s, sr.results, llm, api))

\* process_query (lines 417-446): the envelope it returns, with what the call
\* touched
ProcessQueryOp(query, connected, coll, model, encode, remote, file, llm, api) ==
    ProcessQueryAfterSearch(
        query,
        SearchDocuments(query, ProcessQueryTopK, connected, coll, model, encode, remote, file),
        llm, api)

-----------------------------------------------------------------------------
(* TextProcessor.chunk_text (src/src/text_processor.py)                    *)
(*                                                                         *)
(* A word of the cleaned text is its position in the text.  A sentence is  *)
(* a sequence of runs [from, to] of consecutive words; the sentences that  *)
(* _split_into_sentences returns for the text are one run each.            *)

min_chunk_size == 200
max_chunk_size == 500
overlap_words == 50

\* the word counts of the sentences a text is made of
MaxSentences == 4

RunLen(r) == r.to - r.from + 1

\* len(" ".join(current_chunk).split())
RECURSIVE CountWords(_)
CountWords(runs) ==
    IF runs = <<>> THEN 0 ELSE RunLen(Head(runs)) + CountWords(Tail(runs))

\* the sentences of a text whose sentences have the word counts lens, the
\* first of them starting at word first
RECURSIVE SentencesFrom(_, _)
SentencesFrom(lens, first) ==
    IF lens = <<>> THEN <<>>
    ELSE <<  << [from |-> first, to |-> first + Head(lens) - 1] >>  >>
         \o SentencesFrom(Tail(lens), first + Head(lens))

\* " ".join(current_chunk).split(): the words of the buffer, in order
RECURSIVE JoinSplit(_)
JoinSplit(sents) ==
    IF sents = <<>> THEN <<>> ELSE Head(sents) \o JoinSplit(Tail(sents))

\* consecutive runs written as one run, so that equal word sequences are
\* equal values
RECURSIVE Merge(_)
Merge(runs) ==
    IF Len(runs) < 2 THEN runs
    ELSE IF runs[1].to + 1 = runs[2].from
         THEN Merge(<<[from |-> runs[1].from, to |-> runs[2].to]>>
                    \o SubSeq(runs, 3, Len(runs)))
         ELSE <<runs[1]>> \o Merge(Tail(runs))

\* overlap_words[-n:] for n > 0
RECURSIVE LastWords(_, _)
LastWords(runs, n) ==
    IF runs = <<>> \/ n = 0 THEN <<>>
    ELSE IF RunLen(runs[Len(runs)]) >= n
         THEN << [from |-> runs[Len(runs)].to - n + 1, to |-> runs[Len(runs)].to] >>
         ELSE LastWords(SubSeq(runs, 1, Len(runs) - 1), n - RunLen(runs[Len(runs)]))
              \o << runs[Len(runs)] >>

\* _split_into_sentences applied to the joined overlap words: no sentence of
\* the text but the last holds punctuation followed by white space, and the
\* last sentence is never part of a buffer that is flushed, so the pattern
\* matches nowhere and the words come back as one sentence
SplitIntoSentences(runs) == IF runs = <<>> THEN <<>> ELSE << Merge(runs) >>

\* _get_overlap_sentences, given the buffer and its words
OverlapOf(buffer, words) ==
    IF CountWords(words) <= overlap_words
        THEN buffer
        ELSE SplitIntoSentences(LastWords(words, overlap_words))

GetOverlapSentences(buffer) ==
    IF buffer = <<>> THEN <<>> ELSE OverlapOf(buffer, JoinSplit(buffer))

\* the metadata argument: the document's metadata with or without a
\* 'filename' key
NoFilename == [has_filename |-> FALSE, filename |-> ""]

\* metadata.get('filename', 'unknown')
FilenameOf(meta) == IF meta.has_filename THEN meta.filename ELSE "unknown"

Digits == "0123456789"

\* str(n) for n >= 0
RECURSIVE Decimal(_)
Decimal(n) ==
    IF n < 10 THEN SubSeq(Digits, n + 1, n + 1)
    ELSE Decimal(n \div 10) \o SubSeq(Digits, (n % 10) + 1, (n % 10) + 1)

\* Python's rjust: s padded on the left with "0" to the width
RECURSIVE ZeroPad(_, _)
ZeroPad(s, width) == IF Len(s) >= width THEN s ELSE ZeroPad("0" \o s, width)

\* _create_chunk: the chunk's id
\* f"{metadata.get('filename', 'unknown')}_{chunk_number:03d}", its text as
\* words, the chunk_number of its metadata, its word_count and its source_file
CreateChunk(buffer, number, word_count) ==
    [chunk_id |-> FilenameOf(metadata) \o "_" \o ZeroPad(Decimal(number), 3),
     chunk_number |-> number,
     text |-> Merge(JoinSplit(buffer)), word_count |-> word_count,
     source_file |-> FilenameOf(metadata)]

\* (variant of Overflows: the test looks at the buffer without the sentence)
Overflows_BufferOnly(count, sentence_words, buffer) ==
    count > max_chunk_size /\ buffer # <<>>

\* "current_word_count + sentence_words > self.max_chunk_size and current_chunk"
Overflows(count, sentence_words, buffer) ==
    count + sentence_words > max_chunk_size /\ buffer # <<>>

\* (variant of Emits: every buffer that holds a word is emitted)
Emits_Any(count) == count > 0

\* "current_word_count >= self.min_chunk_size" before a chunk is appended
Emits(count) == count >= min_chunk_size

\* (variant of Recount: the words of the overlap are not counted)
Recount_SentenceOnly(buffer) == CountWords(buffer[Len(buffer)])

\* line 296: current_word_count = len(" ".join(current_chunk).split())
Recount(buffer) == CountWords(JoinSplit(buffer))

\* (variant of NextChunkNumber: the number is not advanced)
NextChunkNumber_Stuck(number, emitted) == number

\* "chunk_number += 1" after a chunk was appended in the loop
NextChunkNumber(number, emitted) == IF emitted THEN number + 1 ELSE number

\* no chunk_text call is running
ChunkIdle ==
    /\ text_blank = FALSE
    /\ metadata = NoFilename
    /\ sentences = <<>>
    /\ chunk_pc = "idle"
    /\ sentence_idx = 0
    /\ current_chunk = <<>>
    /\ current_word_count = 0
    /\ chunk_number = 0
    /\ chunks = <<>>

\* a call of chunk_text(text, metadata) has been entered: the text is blank,
\* or it has at most MaxSentences sentences (none at all when every
\* character of it is removed by _clean_text)
ChunkEntered ==
    /\ \E n \in 0..MaxSentences : \E lens \in [1..n -> {10, 150, 200, 300, 480, 501}] :
          sentences = SentencesFrom(lens, 1)
    /\ text_blank \in {b \in BOOLEAN : b => sentences = <<>>}
    /\ metadata \in { NoFilename, [has_filename |-> TRUE, filename |-> "return_policy.pdf"] }
    /\ chunk_pc = "start"
    /\ sentence_idx = 0
    /\ current_chunk = <<>>
    /\ current_word_count = 0
    /\ chunk_number = 0
    /\ chunks = <<>>

\* lines 265-266: blank text returns the empty list
ReturnEmpty ==
    /\ chunk_pc = "start" /\ text_blank
    /\ chunk_pc' = "done"
    /\ UNCHANGED <<text_blank, metadata, sentences, sentence_idx, current_chunk,
                   current_word_count, chunk_number, chunks>>
    /\ UNCHANGED <<agentVars, embedVars, storeVars, appVars>>

\* lines 268-277: the text is cleaned and split, the loop variables are set
BeginLoop ==
    /\ chunk_pc = "start" /\ ~text_blank
    /\ chunk_pc' = "loop"
    /\ sentence_idx' = 1
    /\ current_chunk' = <<>>
    /\ current_word_count' = 0
    /\ chunk_number' = 1
    /\ chunks' = <<>>
    /\ UNCHANGED <<text_blank, metadata, sentences>>
    /\ UNCHANGED <<agentVars, embedVars, storeVars, appVars>>

\* lines 283-296: the sentence would overflow the buffer; the buffer is
\* emitted when it has min_chunk_size words, and the new buffer is the
\* overlap followed by the sentence
CloseChunk ==
    /\ chunk_pc = "loop" /\ sentence_idx <= Len(sentences)
    /\ Overflows(current_word_count, CountWords(sentences[sentence_idx]), current_chunk)
    /\ chunks' = IF Emits(current_word_count)
                     THEN Append(chunks, CreateChunk(current_chunk, chunk_number,
                                                     current_word_count))
                     ELSE chunks
    /\ chunk_number' = NextChunkNumber(chunk_number, Emits(current_word_count))
    /\ current_chunk' = GetOverlapSentences(current_chunk) \o <<sentences[sentence_idx]>>
    /\ current_word_count' = Recount(current_chunk')
    /\ sentence_idx' = sentence_idx + 1
    /\ UNCHANGED <<text_blank, metadata, sentences, chunk_pc>>
    /\ UNCHANGED <<agentVars, embedVars, storeVars, appVars>>

\* lines 297-299: the sentence is appended to the buffer
AppendSentence ==
    /\ chunk_pc = "loop" /\ sentence_idx <= Len(sentences)
    /\ ~Overflows(current_word_count, CountWords(sentences[sentence_idx]), current_chunk)
    /\ current_chunk' = Append(current_chunk, sentences[sentence_idx])
    /\ current_word_count' = current_word_count + CountWords(sentences[sentence_idx])
    /\ sentence_idx' = sentence_idx + 1
    /\ UNCHANGED <<text_blank, metadata, sentences, chunk_pc, chunk_number, chunks>>
    /\ UNCHANGED <<agentVars, embedVars, storeVars, appVars>>

\* lines 301-308: after the loop the buffer is emitted when it has
\* min_chunk_size words, and the chunks are returned
FinalChunk ==
    /\ chunk_pc = "loop" /\ sentence_idx > Len(sentences)
    /\ chunks' = IF current_chunk # <<>> /\ Emits(current_word_count)
                     THEN Append(chunks, CreateChunk(current_chunk, chunk_number,
                                                     current_word_count))
                     ELSE chunks
    /\ chunk_pc' = "done"
    /\ UNCHANGED <<text_blank, metadata, sentences, sentence_idx, current_chunk,
                   current_word_count, chunk_number>>
    /\ UNCHANGED <<agentVars, embedVars, storeVars, appVars>>

-----------------------------------------------------------------------------
(* generate_embedding of RAGRetrieverAgent (src/src/agents/rag_agent.py),  *)
(* of MilvusManager (src/src/milvus_setup.py) and of the LLM processors    *)
(* (src/src/llm_factory.py).  A hash-based value v - 0.5 is kept as 2v - 1. *)

EmbedTexts == { StrQuery("return policy"), StrQuery("track my order"), NonStringQuery }

\* the bits of int(hashlib.md5(text.encode()).hexdigest()[:8], 16), lowest
\* first, for the texts of the model
Md5Prefix ==
    { << "Our return policy allows returns within 30 days.",   \* 0x5c8119b1
         <<1, 0, 0, 0, 1, 1, 0, 1, 1, 0, 0, 1, 1, 0, 0, 0,
           1, 0, 0, 0, 0, 0, 0, 1, 0, 0, 1, 1, 1, 0, 1, 0>> >>,
      << "Standard shipping takes 5-7 business days; return shipping is free.",   \* 0xbedfcc1c
         <<0, 0, 1, 1, 1, 0, 0, 0, 0, 0, 1, 1, 0, 0, 1, 1,
           1, 1, 1, 1, 1, 0, 1, 1, 0, 1, 1, 1, 1, 1, 0, 1>> >>,
      << "Q: Can I track my order? A: Yes.",   \* 0xfc0bee8c
         <<0, 0, 1, 1, 0, 0, 0, 1, 0, 1, 1, 1, 0, 1, 1, 1,
           1, 1, 0, 1, 0, 0, 0, 0, 0, 0, 1, 1, 1, 1, 1, 1>> >>,
      << "What is your return policy?",   \* 0x7f8115d0
         <<0, 0, 0, 0, 1, 0, 1, 1, 1, 0, 1, 0, 1, 0, 0, 0,
           1, 0, 0, 0, 0, 0, 0, 1, 1, 1, 1, 1, 1, 1, 1, 0>> >>,
      << "shipping guide return",   \* 0x3bc7a97c
         <<0, 0, 1, 1, 1, 1, 1, 0, 1, 0, 0, 1, 0, 1, 0, 1,
           1, 1, 1, 0, 0, 0, 1, 1, 1, 1, 0, 1, 1, 1, 0, 0>> >>,
      << "zzz_no_match_xyz",   \* 0x21b55b54
         <<0, 0, 1, 0, 1, 0, 1, 0, 1, 1, 0, 1, 1, 0, 1, 0,
           1, 0, 1, 0, 1, 1, 0, 1, 1, 0, 0, 0, 0, 1, 0, 0>> >>,
      << "return policy",    \* 0x3d5f9f42
         <<0, 1, 0, 0, 0, 0, 1, 0, 1, 1, 1, 1, 1, 0, 0, 1,
           1, 1, 1, 1, 1, 0, 1, 0, 1, 0, 1, 1, 1, 1, 0, 0>> >>,
      << "track my order",   \* 0x8767b318
         <<0, 0, 0, 1, 1, 0, 0, 0, 1, 1, 0, 0, 1, 1, 0, 1,
           1, 1, 1, 0, 0, 1, 1, 0, 1, 1, 1, 0, 0, 0, 0, 1>> >> }

HashEmbeddingDim == 384

\* [(hash_int >> i) % 2 - 0.5 for i in range(384)], for a hash_int of 32 bits
HashBits(bits) ==
    [i \in 1..HashEmbeddingDim |-> 2 * (IF i - 1 < Len(bits) THEN bits[i] ELSE 0) - 1]

HashEmbedding(s) == HashBits((CHOOSE e \in Md5Prefix : e[1] = s)[2])

\* what all-MiniLM-L6-v2 returns for a text: a dense vector that only the
\* text determines, of the model's 384 dimensions
MiniLMDim == 384
ModelVector(text) == [i \in 1..MiniLMDim |-> 2 + Len(text.s)]

\* what text-embedding-ada-002 returns: 1536 values
AdaDim == 1536

\* what a call did: fallback says that the instance's own model was None or
\* raised, source names what produced the vector
Embedded(source, vector) ==
    [raised |-> FALSE, fallback |-> FALSE, source |-> source, vector |-> vector]

\* the hash-based embedding of a text; text.encode() raises AttributeError
\* for a text that is no string
HashFallback(text) ==
    IF text.isstr THEN Embedded("hash", HashEmbedding(text.s))
    ELSE [raised |-> TRUE, fallback |-> FALSE, source |-> "none", vector |-> <<>>]

\* RAGRetrieverAgent.generate_embedding; encode is what
\* self.embedding_model.encode(text) does when there is a model
GenerateEmbedding(text, model, encode) ==
    IF model = "loaded" /\ encode = "vector"
        THEN Embedded("model", ModelVector(text))
        ELSE [HashFallback(text) EXCEPT !.fallback = TRUE]

\* OpenAIProcessor.generate_embedding and AnthropicProcessor.generate_embedding;
\* remote is what embeddings.create does for OpenAI with a client, and what
\* loading and running the sentence transformer does for Anthropic
LlmGenerateEmbedding(llm, text, remote) ==
    IF llm.provider = "openai" /\ llm.client = "None" THEN HashFallback(text)
    ELSE IF remote = "raise" THEN HashFallback(text)
    ELSE IF llm.provider = "openai" THEN Embedded("api", [i \in 1..AdaDim |-> 4 + Len(text.s)])
    ELSE Embedded("model", ModelVector(text))

\* _generate_fallback_embedding, given what the LLM processor did: every
\* processor has generate_embedding, and what it returns is returned; lines
\* 192-212 give one value for each i of range(0, embedding_dim * 4, 4),
\* unpacked from the digest or 0.0, normalised
FallbackAfterLlm(r, text, dim) ==
    IF ~r.raised THEN r
    ELSE IF text.isstr THEN Embedded("md5", [i \in 1..dim |-> 0])
    ELSE [raised |-> TRUE, fallback |-> FALSE, source |-> "none", vector |-> <<>>]

GenerateFallbackEmbedding(text, llm, remote, dim) ==
    FallbackAfterLlm(LlmGenerateEmbedding(llm, text, remote), text, dim)

\* MilvusManager.generate_embedding
MilvusGenerateEmbedding(text, model, encode, llm, remote, dim) ==
    IF model = "loaded" /\ encode = "vector"
        THEN Embedded("model", ModelVector(text))
        ELSE [GenerateFallbackEmbedding(text, llm, remote, dim) EXCEPT !.fallback = TRUE]


EmbedCall(who, text, r) ==
    [who |-> who, text |-> text, raised |-> r.raised, fallback |-> r.fallback,
     source |-> r.source, vector |-> r.vector]

\* the vectors returned so far while the model was unavailable or raising
Returned(before, who, text, r) ==
    IF r.fallback /\ ~r.raised THEN before \cup { <<who, text, r.vector>> } ELSE before

\* no generate_embedding call has been made
EmbedUncalled ==
    /\ embed_call = EmbedCall("none", StrQuery(""), Embedded("none", <<>>))
    /\ embed_returned = {}

\* no MilvusManager is in use
EmbedIdle ==
    /\ mm_embedding_model = "None"
    /\ mm_embedding_dim = 384
    /\ mm_llm_processor = [provider |-> "openai", client |-> "None"]
    /\ EmbedUncalled

-----------------------------------------------------------------------------
(* The local stores: data/vector_database.json, written by                 *)
(* create_mock_vector_database (src/setup_simple_db.py) and read by        *)
(* RAGRetrieverAgent._mock_search_results, and data/mock_embeddings.json,  *)
(* written and read by MilvusManager (src/src/milvus_setup.py)             *)

\* the documents create_mock_vector_database writes (lines 24-101), in its
\* order
SetupDocuments ==
    << Doc(1,
           "Our return policy allows customers to return items within 30 days of p" \o
           "urchase. All items must be in original condition with tags attached. R" \o
           "efunds will be processed within 5-7 business days after we receive the" \o
           " returned item. For defective items, we offer free return shipping.",
           Meta("return_policy.pdf", "returns", "policy_documents")),
       Doc(2,
           "We offer several shipping options: Standard shipping (5-7 business day" \o
           "s) for $5.99, Express shipping (2-3 business days) for $12.99, and Ove" \o
           "rnight shipping (1 business day) for $24.99. Free standard shipping is" \o
           " available on orders over $50.",
           Meta("shipping_guide.pdf", "shipping", "customer_service")),
       Doc(3,
           "Customer service is available Monday through Friday from 9 AM to 6 PM " \o
           "EST. You can contact us via email at support@ecommerce.com, phone at 1" \o
           "-800-SHOP-NOW, or live chat on our website. We respond to emails withi" \o
           "n 24 hours.",
           Meta("contact_info.pdf", "support", "customer_service")),
       Doc(4,
           "Our size guide helps you find the perfect fit. For clothing: XS (0-2)," \o
           " S (4-6), M (8-10), L (12-14), XL (16-18). For shoes: we offer sizes 5" \o
           "-12 in both standard and wide widths. Measurements should be taken wit" \o
           "hout clothing for accuracy.",
           Meta("size_guide.pdf", "sizing", "product_info")),
       Doc(5,
           "We offer a 1-year warranty on all electronic items and a 90-day warran" \o
           "ty on clothing and accessories. Warranty covers manufacturing defects " \o
           "but does not cover damage from normal wear and tear or misuse.",
           Meta("warranty_info.pdf", "warranty", "policy_documents")),
       Doc(6,
           "Payment methods accepted include all major credit cards (Visa, MasterC" \o
           "ard, American Express, Discover), PayPal, Apple Pay, Google Pay, and b" \o
           "uy-now-pay-later options through Klarna and Afterpay.",
           Meta("payment_methods.pdf", "payment", "billing")),
       Doc(7,
           "Frequently Asked Questions: Q: Can I track my order? A: Yes, you'll re" \o
           "ceive a tracking number via email once your order ships. Q: Do you off" \o
           "er gift wrapping? A: Yes, gift wrapping is available for $3.99.",
           Meta("faq.pdf", "faq", "customer_service")) >>

OkFile(docs) == [state |-> "ok", documents |-> docs]

\* the stores the file tier is searched over: the empty one, the one
\* create_mock_vector_database writes, and one to MaxStoreDocs different
\* documents, in any order, out of the return policy, the shipping guide, a
\* document that says more about returns than the return policy does, and
\* one that scores like the return policy
MaxStoreDocs == 3
StoreFiles ==
    { OkFile(docs) :
        docs \in { d \in UNION { [1..n ->
                        { DocReturns, DocShipping,
                          Doc(8, "What is your return window? It is 30 days.",
                              Meta("return_faq.pdf", "returns", "customer_service")),
                          Doc(9, "Return labels are in the box.",
                              Meta("return_labels.pdf", "returns", "customer_service")) }]
                      : n \in 1..MaxStoreDocs } :
                    \A i \in DOMAIN d, j \in DOMAIN d : i # j => d[i] # d[j] } }
    \cup { OkFile(<<>>), OkFile(SetupDocuments) }

StoreQueries ==
    { StrQuery(q) : q \in { "What is your return policy?", "shipping guide return",
                            "return policy", "zzz_no_match_xyz" } }
    \cup { NonStringQuery }

\* the TextChunks handed to insert_chunks
InsertedChunks ==
    << [chunk_id |-> "return_policy.pdf_001",
        text |-> "Our return policy allows returns within 30 days.",
        metadata |-> Meta("return_policy.pdf", "returns", "policy_documents"),
        word_count |-> 8],
       [chunk_id |-> "shipping_guide.pdf_001",
        text |-> "Standard shipping takes 5-7 business days; return shipping is free.",
        metadata |-> Meta("shipping_guide.pdf", "shipping", "customer_service"),
        word_count |-> 10],
       [chunk_id |-> "faq.pdf_001", text |-> "Q: Can I track my order? A: Yes.",
        metadata |-> Meta("faq.pdf", "faq", "customer_service"), word_count |-> 8] >>

\* hash(s) % 1000000 for the chunk ids of the model: a str hash is salted
\* when the Python process starts, so the value is fixed within a process and
\* differs between processes (two salts, 0 and 1, in the model)
HashMod(s, seed) ==
    (CHOOSE h \in
        { << "return_policy.pdf_001", 0, 271828 >>, << "return_policy.pdf_001", 1, 577215 >>,
          << "shipping_guide.pdf_001", 0, 314159 >>, << "shipping_guide.pdf_001", 1, 141421 >>,
          << "faq.pdf_001", 0, 693147 >>, << "faq.pdf_001", 1, 161803 >> } :
        h[1] = s /\ h[2] = seed)[3]

\* "embedding": self.generate_embedding(chunk.text)[:10]
EmbeddingPrefixLen == 10

\* _mock_insert (lines 267-296): the file it writes, one chunk_data (lines
\* 274-280) for each chunk; embedded[i] is what generate_embedding returned
\* for the i-th chunk
MockInsert(text_chunks, embedded) ==
    [state |-> "ok",
     chunks |-> [i \in 1..Len(text_chunks) |->
                   [chunk_id |-> text_chunks[i].chunk_id, text |-> text_chunks[i].text,
                    metadata |-> text_chunks[i].metadata,
                    word_count |-> text_chunks[i].word_count,
                    embedding |-> Take(embedded[i].vector, EmbeddingPrefixLen)]]]

\* the number of query words that occur in a text (line 355)
RECURSIVE Matches(_, _, _)
Matches(words, i, text) ==
    IF i > Len(words) THEN 0
    ELSE (IF Contains(text, words[i]) THEN 1 ELSE 0) + Matches(words, i + 1, text)

\* lines 357-364: the result of a chunk with at least one match; the score
\* matches / len(query_words) in hundredths
MockHit(matches, n, chunk, seed) ==
    IF matches > 0
    THEN << [score |-> (100 * matches) \div n,
             doc |-> [id |-> HashMod(chunk.chunk_id, seed), text |-> chunk.text,
                      metadata |-> chunk.metadata]] >>
    ELSE <<>>

\* the loop of lines 353-364
RECURSIVE MockHits(_, _, _, _)
MockHits(stored, i, query_words, seed) ==
    IF i > Len(stored) THEN <<>>
    ELSE MockHit(Matches(query_words, 1, Lower(stored[i].text)), Len(query_words),
                 stored[i], seed)
         \o MockHits(stored, i + 1, query_words, seed)

\* lines 366-368: results.sort(..., reverse=True); return results[:top_k]
MockTopK(sorted, top_k) ==
    [ j \in 1..Min(top_k, Len(sorted)) |->
        SearchResult(sorted[j].doc.id, sorted[j].doc.text, sorted[j].doc.metadata,
                     sorted[j].score) ]

StoreResult(results, tier) == [raised |-> FALSE, results |-> results, tier |-> tier]

\* MilvusManager._mock_search (lines 339-381): an unreadable file and a query
\* without lower() end in the except clause and the fallback; a readable
\* file answers with its matches, also when there is none
MockSearch(query, top_k, file, seed) ==
    IF file.state = "absent" \/ file.state = "corrupt" \/ ~query.isstr
    THEN StoreResult(
            << [id |-> 1,
                text |-> "Our return policy allows returns within 30 days of purchase.",
                metadata |-> [filename |-> "return_policy.pdf", topic |-> "returns"],
                similarity_score |-> 80] >>,
            "fallback")
    ELSE StoreResult(
            MockTopK(SortDesc(MockHits(file.chunks, 1, Split(Lower(query.s)), seed), 1, <<>>),
                     top_k),
            "mock_file")

\* what collection.search delivers to search_similar: hits, best first
MilvusHits ==
    << [id |-> 201, text |-> "Returns are accepted within 30 days of purchase.",
        metadata |-> Meta("return_policy.pdf", "returns", "policy_documents"),
        similarity_score |-> 88],
       [id |-> 202, text |-> "Gift wrapping is available for $3.99.",
        metadata |-> Meta("faq.pdf", "faq", "customer_service"),
        similarity_score |-> 35] >>

\* search_similar (lines 298-337); embedded says that generate_embedding
\* returned a vector, mock is what _mock_search(query, top_k) returns; the
\* hits of the remote search are returned as they are, also when there is
\* none
SearchSimilar(coll, embedded, remote, top_k, mock) ==
    IF coll = "None" THEN mock
    ELSE IF ~embedded \/ remote = "raise" THEN mock
    ELSE IF remote = "hits" THEN StoreResult(Take(MilvusHits, top_k), "remote")
    ELSE StoreResult(<<>>, "remote")

-----------------------------------------------------------------------------
(* Calls on the local stores *)

StoreCall(op, who, query, top_k, r, status) ==
    [op |-> op, who |-> who, query |-> query, top_k |-> top_k, raised |-> r.raised,
     results |-> r.results, tier |-> r.tier, status |-> status]

NoStoreCall ==
    StoreCall("none", "none", StrQuery(""), 0, StoreResult(<<>>, "none"), "none")

\* the best result of the first search of a written store
NoTop1 == [who |-> "none", query |-> StrQuery(""), id |-> 0]
Top1(first, who, query, r, written) ==
    IF first = NoTop1 /\ written /\ ~r.raised /\ r.results # <<>>
    THEN [who |-> who, query |-> query, id |-> r.results[1].id]
    ELSE first

\* neither store is in use
StoreIdle ==
    /\ mock_file = [state |-> "absent", chunks |-> <<>>]
    /\ mm_collection = "None"
    /\ hash_seed = 0
    /\ store_call = NoStoreCall
    /\ top1_first = NoTop1

\* python setup_simple_db.py: create_mock_vector_database (lines 15-121)
\* opens data/vector_database.json with 'w' and dumps its seven documents
\* (the embedding of a document and its created_at are constants and are not
\* read by the search)
CreateMockVectorDatabase ==
    /\ db_file' = OkFile(SetupDocuments)
    /\ store_call' = StoreCall("create_mock_vector_database", "setup_simple_db", StrQuery(""),
                               0, StoreResult(<<>>, "none"), "success")
    /\ top1_first' = IF db_file = OkFile(SetupDocuments) THEN top1_first ELSE NoTop1
    /\ UNCHANGED <<mock_file, mm_collection, hash_seed>>
    /\ UNCHANGED <<milvus_connected, collection, embedding_model, llm_processor, call,
                   remoteFailedBefore>>
    /\ UNCHANGED <<chunkVars, embedVars, appVars>>

\* a call of RAGRetrieverAgent._mock_search_results(query)
FileSearchCall ==
    \E query \in StoreQueries :
        \E r \in { MockSearchResults(query, db_file) } :
           /\ store_call' = StoreCall("_mock_search_results", "RAGRetrieverAgent", query, 0,
                                      r, "none")
           /\ top1_first' = Top1(top1_first, "RAGRetrieverAgent", query, r,
                                 r.tier = "file" /\ db_file = OkFile(SetupDocuments))
           /\ UNCHANGED <<mock_file, mm_collection, hash_seed>>
           /\ UNCHANGED <<agentVars, chunkVars, embedVars, appVars>>

\* insert_chunks (lines 214-265): the status it returns and the file it
\* leaves; written is what _mock_insert writes, outcome is what
\* collection.insert and collection.flush do
InsertChunks(text_chunks, coll, outcome, file, written) ==
    IF text_chunks = <<>> THEN [status |-> "error", file |-> file]
    ELSE IF coll = "None" THEN [status |-> "success", file |-> written]
    ELSE IF outcome = "raise" THEN [status |-> "error", file |-> file]
    ELSE [status |-> "success", file |-> file]

\* a call of MilvusManager.insert_chunks(chunks); encode and remote are what
\* the embedding model and the embedding service do during the call
InsertChunksCall ==
    \E text_chunks \in {<<>>, InsertedChunks}, encode \in EncodeOutcomes,
       remote \in EncodeOutcomes :
        \E written \in { MockInsert(text_chunks,
                            [i \in 1..Len(text_chunks) |->
                                MilvusGenerateEmbedding(StrQuery(text_chunks[i].text),
                                    mm_embedding_model, encode, mm_llm_processor, remote,
                                    mm_embedding_dim)]) } :
            \E outcome \in {"inserted", "raise"} :
                \E r \in { InsertChunks(text_chunks, mm_collection, outcome, mock_file,
                                        written) } :
                   /\ mock_file' = r.file
                   /\ store_call' = StoreCall("insert_chunks", "MilvusManager", StrQuery(""),
                                              0, StoreResult(<<>>, "none"), r.status)
                   /\ UNCHANGED <<mm_collection, hash_seed, top1_first>>
                   /\ UNCHANGED <<agentVars, chunkVars, embedVars, appVars>>

\* a call of MilvusManager.search_similar(query, top_k); encode and
\* remote_embedding are what the embedding model and the embedding service
\* do for the query, remote is what collection.search does
SearchSimilarCall ==
    \E query \in StoreQueries, top_k \in TopKs :
        \E mock \in { MockSearch(query, top_k, mock_file, hash_seed) } :
            \E encode \in EncodeOutcomes, remote_embedding \in EncodeOutcomes :
                \E embedded \in { ~MilvusGenerateEmbedding(query, mm_embedding_model,
                                        encode, mm_llm_processor, remote_embedding,
                                        mm_embedding_dim).raised } :
                    \E remote \in RemoteOutcomes :
                        \E r \in { SearchSimilar(mm_collection, embedded, remote, top_k,
                                                 mock) } :
                           /\ store_call' = StoreCall("search_similar", "MilvusManager",
                                                      query, top_k, r, "none")
                           /\ top1_first' = Top1(top1_first, "MilvusManager", query, r,
                                                 r.tier = "mock_file")
                           /\ UNCHANGED <<mock_file, mm_collection, hash_seed>>
                           /\ UNCHANGED <<agentVars, chunkVars, embedVars, appVars>>

\* python milvus_setup.py is started again (main, lines 478-496): a new
\* Python process with another salt for str hashes and a new MilvusManager
\* of the same configuration; the files stay
Restart ==
    /\ hash_seed' \in {0, 1} \ {hash_seed}
    /\ UNCHANGED <<mock_file, mm_collection, store_call, top1_first>>
    /\ UNCHANGED <<agentVars, chunkVars, embedVars, appVars>>

-----------------------------------------------------------------------------
(* The application around the agent: the intent router                     *)
(* (src/src/orchestrator.py), the processor registry LLMProcessorFactory   *)
(* (src/src/llm_factory.py), the tool functions (src/src/tools/) and the   *)
(* transactional agents (src/src/agents/transactional_agents.py)           *)

\* Orchestrator.rag_keywords (lines 45-50)
rag_keywords ==
    { "policy", "rules", "faq", "how to", "guide", "manual", "terms", "details",
      "brochure", "information", "help", "what is", "explain", "describe",
      "documentation", "who pays", "what happens", "how do i", "can i cancel",
      "return shipping" }

\* Orchestrator.transactional_keywords (lines 53-57)
transactional_keywords ==
    { "track order", "order status", "my order #", "order number", "tracking number",
      "order #", "return status for order", "refund status for order", "cancel order #" }

\* (variant of DetermineTransactionalTool: the return words are tried before the
\* order words)
DetermineTransactionalTool_ReturnsFirst(query) ==
    LET query_lower == Lower(query)
        AnyIn(words) == \E word \in words : Contains(query_lower, word)
    IN  IF AnyIn({"product", "inventory", "stock", "availability", "available", "prod-",
                  "search", "find", "item"})
        THEN "inventory_tool"
        ELSE IF AnyIn({"return", "refund", "exchange"}) THEN "returns_tool"
        ELSE IF AnyIn({"order", "track", "status", "check"}) THEN "order_tool"
        ELSE "inventory_tool"
\* _determine_transactional_tool (lines 110-122)
DetermineTransactionalTool(query) ==
    LET query_lower == Lower(query)
        AnyIn(words) == \E word \in words : Contains(query_lower, word)
    IN  IF AnyIn({"product", "inventory", "stock", "availability", "available", "prod-",
                  "search", "find", "item"})
        THEN "inventory_tool"
        ELSE IF AnyIn({"order", "track", "status", "check"}) THEN "order_tool"
        ELSE IF AnyIn({"return", "refund", "exchange"}) THEN "returns_tool"
        ELSE "inventory_tool"

\* (variant of RouteQuery: the transactional keywords are tried before the RAG
\* keywords)
RouteQuery_TransactionalFirst(query) ==
    LET query_lower == Lower(query)
        rag_matches == Cardinality({ k \in rag_keywords : Contains(query_lower, k) })
        transactional_matches ==
            Cardinality({ k \in transactional_keywords : Contains(query_lower, k) })
    IN  IF transactional_matches > 0
        THEN [intent |-> "TRANSACTIONAL",
              confidence |-> Min((transactional_matches * 500)
                                     \div Cardinality(transactional_keywords), 100),
              tool_name |-> DetermineTransactionalTool(query_lower)]
        ELSE IF rag_matches > 0
        THEN [intent |-> "RAG_QUERY",
              confidence |-> Min((rag_matches * 500) \div Cardinality(rag_keywords), 100),
              tool_name |-> "ecom_rag_tool"]
        ELSE [intent |-> "RAG_QUERY", confidence |-> 50, tool_name |-> "ecom_rag_tool"]
\* route_query (lines 68-108); the confidence in hundredths, rounded down
RouteQuery(query) ==
    LET query_lower == Lower(query)
        rag_matches == Cardinality({ k \in rag_keywords : Contains(query_lower, k) })
        transactional_matches ==
            Cardinality({ k \in transactional_keywords : Contains(query_lower, k) })
    IN  IF rag_matches > 0
        THEN [intent |-> "RAG_QUERY",
              confidence |-> Min((rag_matches * 500) \div Cardinality(rag_keywords), 100),
              tool_name |-> "ecom_rag_tool"]
        ELSE IF transactional_matches > 0
        THEN [intent |-> "TRANSACTIONAL",
              confidence |-> Min((transactional_matches * 500)
                                     \div Cardinality(transactional_keywords), 100),
              tool_name |-> DetermineTransactionalTool(query_lower)]
        ELSE [intent |-> "RAG_QUERY", confidence |-> 50, tool_name |-> "ecom_rag_tool"]

\* Orchestrator.process_query (lines 124-157): the tool call it returns.  The
\* context is None ("None"), the empty mapping ("{}") or a mapping with
\* entries; "user_context or {}" is the empty mapping for the first two
OrchestratorProcessQuery(query, user_context) ==
    LET routing_result == RouteQuery(query)
        or_empty == IF user_context \in {"None", "{}"} THEN "{}" ELSE user_context
    IN  IF routing_result.intent = "RAG_QUERY"
        THEN [tool |-> routing_result.tool_name,
              arguments |-> [query |-> query, context |-> or_empty]]
        ELSE IF routing_result.intent = "TRANSACTIONAL"
        THEN [tool |-> routing_result.tool_name,
              arguments |-> [query |-> query, user_context |-> or_empty]]
        ELSE [tool |-> "ecom_rag_tool",
              arguments |-> [query |-> query, context |-> or_empty]]

\* the <<provider, model>> pairs get_processor is called with, and the values
\* of DEFAULT_PROVIDER and DEFAULT_MODEL in the environment
ProcessorRequests ==
    { <<"openai", "gpt-3.5-turbo">>, <<"OpenAI", "gpt-3.5-turbo">>, <<"openai", "gpt-4">>,
      <<"anthropic", "claude-3-haiku">>, <<"gemini", "gemini-pro">> }

\* (variant of FactoryKey: the provider is kept as it was given)
FactoryKey_AsGiven(provider, model) == <<provider, model>>
\* line 175: key = (provider.lower(), model)
FactoryKey(provider, model) == <<Lower(provider), model>>

\* LLMProcessorFactory.get_processor with _create_processor (lines 170-192) on
\* the registry: what it returns or raises and the registry afterwards.  A new
\* processor is an object that is none of the registered ones (the first free
\* object number); the client constructor of a processor (lines 41, 105) may
\* raise
GetProcessor(registry, provider, model, client_raises) ==
    LET key == FactoryKey(provider, model)
        used == { registry[k].id : k \in DOMAIN registry }
        id == CHOOSE n \in 1..(Cardinality(used) + 1) :
                  n \notin used /\ \A m \in 1..(n - 1) : m \in used
        class == IF Lower(provider) = "openai" THEN "OpenAIProcessor"
                 ELSE IF Lower(provider) = "anthropic" THEN "AnthropicProcessor"
                 ELSE "None"
        processor == [class |-> class, model |-> model, id |-> id]
    IN  IF key \in DOMAIN registry
        THEN [raised |-> "None", id |-> registry[key].id, instances |-> registry]
        ELSE IF class = "None"
        THEN [raised |-> "ValueError", id |-> 0, instances |-> registry]
        ELSE IF client_raises
        THEN [raised |-> "Exception", id |-> 0, instances |-> registry]
        ELSE [raised |-> "None", id |-> id,
              instances |-> [k \in DOMAIN registry \cup {key} |->
                                IF k = key THEN processor ELSE registry[k]]]

\* (variant of GetRagAgent: an agent is constructed on every call)
GetRagAgent_AlwaysNew(instance, built, registry, env) ==
    IF ~env.port_ok
    THEN [raised |-> TRUE, agent |-> 0, instance |-> instance, processor |-> 0,
          instances |-> registry]
    ELSE LET r == GetProcessor(registry, env.provider, env.model, env.client_raises)
         IN  IF r.raised # "None"
             THEN [raised |-> TRUE, agent |-> 0, instance |-> instance, processor |-> 0,
                   instances |-> registry]
             ELSE [raised |-> FALSE, agent |-> built + 1, instance |-> built + 1,
                   processor |-> r.id, instances |-> r.instances]
\* get_rag_agent (rag_agent.py lines 449-461) with RAGRetrieverAgent.__init__
\* (line 80: get_default_processor) on the shared instance (0 is None): the
\* agent it returns or that it raises, the shared instance and the registry
\* afterwards.  int(os.getenv("MILVUS_PORT", ..)) raises for a port that is not
\* a number; a new agent is the object number built + 1
GetRagAgent(instance, built, registry, env) ==
    IF instance # 0
    THEN [raised |-> FALSE, agent |-> instance, instance |-> instance, processor |-> 0,
          instances |-> registry]
    ELSE IF ~env.port_ok
    THEN [raised |-> TRUE, agent |-> 0, instance |-> instance, processor |-> 0,
          instances |-> registry]
    ELSE LET r == GetProcessor(registry, env.provider, env.model, env.client_raises)
         IN  IF r.raised # "None"
             THEN [raised |-> TRUE, agent |-> 0, instance |-> instance, processor |-> 0,
                   instances |-> registry]
             ELSE [raised |-> FALSE, agent |-> built + 1, instance |-> built + 1,
                   processor |-> r.id, instances |-> r.instances]

\* re.search(prefix followed by one or more id characters, query, re.IGNORECASE)
\* and match.group().upper(): the leftmost match, as long as it can be; "None"
\* without a match.  The id characters are the digits (\d) or, with `letters`,
\* the digits and the letters ([A-Z0-9])
ExtractId(query, prefix, letters) ==
    LET low == Lower(query)
        n == Len(prefix)
        Up(c) == IF \E K \in DOMAIN LowerMap : LowerMap[K] = c
                 THEN CHOOSE K \in DOMAIN LowerMap : LowerMap[K] = c ELSE c
        RECURSIVE Upper(_, _)
        Upper(lo, hi) ==
            IF lo > hi THEN ""
            ELSE IF lo = hi THEN Up(SubSeq(low, lo, lo))
            ELSE Upper(lo, (lo + hi) \div 2) \o Upper((lo + hi) \div 2 + 1, hi)
        IsIdChar(i) ==
            \/ Contains(Digits, SubSeq(low, i, i))
            \/ letters /\ \E K \in DOMAIN LowerMap : LowerMap[K] = SubSeq(low, i, i)
        starts == { i \in 1..(Len(low) - n) :
                      SubSeq(low, i, i + n - 1) = prefix /\ IsIdChar(i + n) }
    IN  IF starts = {} THEN "None"
        ELSE LET i == CHOOSE a \in starts : \A b \in starts : a <= b
                 j == CHOOSE e \in (i + n)..Len(low) :
                          /\ \A k \in (i + n)..e : IsIdChar(k)
                          /\ (e = Len(low) \/ ~IsIdChar(e + 1))
             IN  Upper(i, j)

\* OrderStatusAgent._generate_mock_orders (lines 52-99): the orders by id
\* (amounts in cents; the dates depend on the day and are left out)
MockOrders ==
    [ id \in {"ORD-001", "ORD-002", "ORD-003"} |->
        [order_id |-> id,
         customer_email |-> IF id = "ORD-001" THEN "john@example.com"
                            ELSE IF id = "ORD-002" THEN "jane@example.com"
                            ELSE "bob@example.com",
         status |-> IF id = "ORD-001" THEN "shipped"
                    ELSE IF id = "ORD-002" THEN "processing" ELSE "delivered",
         total_amount |-> IF id = "ORD-001" THEN 99999
                          ELSE IF id = "ORD-002" THEN 59999 ELSE 29998] ]

\* ReturnAgent._generate_mock_returns (lines 237-268): the returns by id
MockReturns ==
    [ id \in {"RET-001", "RET-002"} |->
        IF id = "RET-001"
        THEN [return_id |-> id, order_id |-> "ORD-001", product_id |-> "PROD-123",
              reason |-> "Wrong size", status |-> "processing"]
        ELSE [return_id |-> id, order_id |-> "ORD-002", product_id |-> "PROD-456",
              reason |-> "Damaged item", status |-> "approved"] ]

\* ProductAgent._generate_mock_products (lines 379-421): the products in the
\* order of the dict (prices in cents)
MockProducts ==
    << [product_id |-> "PROD-001", name |-> "Gaming Laptop", price |-> 129999,
        stock_quantity |-> 15, category |-> "Electronics",
        description |-> "High-performance gaming laptop with RTX graphics"],
       [product_id |-> "PROD-002", name |-> "Wireless Headphones", price |-> 19999,
        stock_quantity |-> 50, category |-> "Audio",
        description |-> "Premium noise-canceling wireless headphones"],
       [product_id |-> "PROD-003", name |-> "Smartphone", price |-> 69999,
        stock_quantity |-> 0, category |-> "Electronics",
        description |-> "Latest smartphone with advanced camera"],
       [product_id |-> "PROD-004", name |-> "Running Shoes", price |-> 12999,
        stock_quantity |-> 25, category |-> "Sports",
        description |-> "Professional running shoes with premium comfort"] >>

\* OrderStatusAgent.process_query (lines 168-197) with track_order (122-141),
\* get_order_status (101-120) and _extract_order_id (199-215), for a string
\* query
OrderProcessQuery(store, query) ==
    LET query_lower == Lower(query)
        ord == ExtractId(query, "ord-", FALSE)
        order_id == IF ord # "None" THEN ord ELSE ExtractId(query, "order-", FALSE)
        NotFound == [status |-> "error", error |-> "Order " \o order_id \o " not found"]
    IN  IF Contains(query_lower, "track") \/ Contains(query_lower, "tracking")
        THEN IF order_id # "None"
             THEN IF order_id \notin DOMAIN store THEN NotFound
                  ELSE [status |-> "success",
                        data |-> [order_id |-> order_id,
                                  current_status |-> store[order_id].status]]
             ELSE [status |-> "error",
                   error |-> "Please provide an order ID to track your order"]
        ELSE IF Contains(query_lower, "status") \/ Contains(query_lower, "check")
        THEN IF order_id # "None"
             THEN IF order_id \notin DOMAIN store THEN NotFound
                  ELSE [status |-> "success",
                        data |-> [order_id |-> store[order_id].order_id,
                                  status |-> store[order_id].status,
                                  total_amount |-> store[order_id].total_amount]]
             ELSE [status |-> "error",
                   error |-> "Please provide an order ID to check status"]
        ELSE [status |-> "success",
              message |-> "I can help you track orders or check order status. Please provide your order ID."]

\* (variant of InitiateReturn: the new return is stored as "processing")
InitiateReturn_Processing(store, return_id, order_id, product_id, reason) ==
    [ k \in DOMAIN store \cup {return_id} |->
        IF k = return_id
        THEN [return_id |-> return_id, order_id |-> order_id, product_id |-> product_id,
              reason |-> reason, status |-> "processing"]
        ELSE store[k] ]
\* ReturnAgent.initiate_return (lines 270-283): the returns afterwards
InitiateReturn(store, return_id, order_id, product_id, reason) ==
    [ k \in DOMAIN store \cup {return_id} |->
        IF k = return_id
        THEN [return_id |-> return_id, order_id |-> order_id, product_id |-> product_id,
              reason |-> reason, status |-> "initiated"]
        ELSE store[k] ]

\* ReturnAgent.get_return_status (lines 298-316)
GetReturnStatus(store, return_id) ==
    IF return_id \notin DOMAIN store
    THEN [status |-> "error", error |-> "Return " \o return_id \o " not found"]
    ELSE [status |-> "success",
          data |-> [return_id |-> store[return_id].return_id,
                    order_id |-> store[return_id].order_id,
                    status |-> store[return_id].status,
                    reason |-> store[return_id].reason]]

\* ReturnAgent.process_query (lines 325-358) with _extract_return_id (360-370),
\* for a string query
ReturnProcessQuery(store, query) ==
    LET query_lower == Lower(query)
        return_id == ExtractId(query, "ret-", TRUE)
    IN  IF /\ Contains(query_lower, "status")
           /\ (Contains(query_lower, "ret-") \/ Contains(query_lower, "return"))
        THEN IF return_id # "None" THEN GetReturnStatus(store, return_id)
             ELSE [status |-> "success", data |-> [message |-> "To check return status, I need your return ID (format: RET-XXXXXX). You can find this in your return confirmation email."]]
        ELSE IF \/ Contains(query_lower, "initiate") \/ Contains(query_lower, "start")
                \/ Contains(query_lower, "how to return")
        THEN [status |-> "success", data |-> [message |-> "To start a return: 1) Go to our returns page, 2) Enter your order number and email, 3) Select items to return and reason, 4) Print the return label, 5) Package and ship the item back. You'll receive a return ID for tracking."]]
        ELSE [status |-> "success", data |-> [message |-> "For return policy questions, please ask about our return policy and I'll provide detailed information from our knowledge base."]]

\* ProductAgent.process_query (lines 490-517) with check_availability (423-443),
\* search_products (445-466), get_product_details (468-488) and
\* _extract_product_id (519-529), for a string query
ProductProcessQuery(store, query) ==
    LET query_lower == Lower(query)
        product_id == ExtractId(query, "prod-", FALSE)
        Found == { i \in 1..Len(store) : store[i].product_id = product_id }
        NotFound == [status |-> "error", error |-> "Product " \o product_id \o " not found"]
        Matching(product) ==
            \/ Contains(Lower(product.name), query_lower)
            \/ Contains(Lower(product.category), query_lower)
            \/ Contains(Lower(product.description), query_lower)
        Summary(matching, i) ==
            LET product == matching[i]
            IN  [product_id |-> product.product_id, name |-> product.name,
                 price |-> product.price, category |-> product.category,
                 available |-> product.stock_quantity > 0,
                 stock_quantity |-> product.stock_quantity]
        SearchProducts ==
            LET matching == SelectSeq(store, Matching)
            IN  [status |-> "success",
                 data |-> [ i \in 1..Len(matching) |-> Summary(matching, i) ]]
    IN  IF \/ Contains(query_lower, "availability") \/ Contains(query_lower, "stock")
           \/ Contains(query_lower, "available")
        THEN IF product_id # "None"
             THEN IF Found = {} THEN NotFound
                  ELSE LET product == store[CHOOSE i \in Found : TRUE]
                       IN  [status |-> "success",
                            data |-> [product_id |-> product.product_id,
                                      name |-> product.name,
                                      available |-> product.stock_quantity > 0,
                                      stock_quantity |-> product.stock_quantity,
                                      price |-> product.price]]
             ELSE SearchProducts
        ELSE IF Contains(query_lower, "search") \/ Contains(query_lower, "find")
        THEN SearchProducts
        ELSE IF Contains(query_lower, "details") \/ Contains(query_lower, "info")
        THEN IF product_id # "None"
             THEN IF Found = {} THEN NotFound
                  ELSE LET product == store[CHOOSE i \in Found : TRUE]
                       IN  [status |-> "success",
                            data |-> [product_id |-> product.product_id,
                                      name |-> product.name, price |-> product.price,
                                      stock_quantity |-> product.stock_quantity,
                                      category |-> product.category,
                                      description |-> product.description,
                                      available |-> product.stock_quantity > 0]]
             ELSE [status |-> "error",
                   error |-> "Please provide a product ID for detailed information"]
        ELSE SearchProducts

\* route_query and process_query of the orchestrator on every query the
\* application is called with, computed once
OrchestratorMemo ==
    [ query \in { "Track my order ORD-001", "Check return status RET-001",
                  "Is product PROD-001 available?", "track order ORD-001",
                  "return status for order ORD-001",
                  "What is the refund status for order ORD-001?",
                  "order status of my item", "Hello", "What is your return policy?",
                  "TRACKING NUMBER 55", "status of ret-a1b2c3", "Laptop" } |->
        [routing_result |-> RouteQuery(query),
         returned |-> [ user_context \in {"None", "{}", "{user}"} |->
                          OrchestratorProcessQuery(query, user_context) ]] ]

\* the state of the application before any call: an empty registry, no shared
\* agent, and the stores as the agents' constructors fill them
AppIdle ==
    /\ instances = [k \in {} |-> 0]
    /\ handed_out = {}
    /\ rag_agent_instance = 0
    /\ agents_built = 0
    /\ agents_used = {}
    /\ orders = MockOrders
    /\ returns = MockReturns
    /\ products = MockProducts
    /\ app_call = [op |-> "none"]

\* Orchestrator.process_query(query, user_context)
RouteCall ==
    /\ \E query \in DOMAIN OrchestratorMemo, user_context \in {"None", "{}", "{user}"} :
         app_call' = [op |-> "process_query", query |-> query,
                      user_context |-> user_context,
                      routing_result |-> OrchestratorMemo[query].routing_result,
                      returned |-> OrchestratorMemo[query].returned[user_context]]
    /\ UNCHANGED <<instances, handed_out, rag_agent_instance, agents_built,
                   agents_used, orders, returns, products>>
    /\ UNCHANGED <<agentVars, chunkVars, embedVars, storeVars>>

\* LLMProcessorFactory.get_processor(provider, model)
GetProcessorCall ==
    /\ \E request \in ProcessorRequests, client_raises \in BOOLEAN :
         \E r \in { GetProcessor(instances, request[1], request[2], client_raises) } :
            /\ instances' = r.instances
            /\ handed_out' = IF r.raised = "None"
                             THEN handed_out \cup { <<Lower(request[1]), request[2], r.id>> }
                             ELSE handed_out
            /\ app_call' = [op |-> "get_processor", provider |-> request[1],
                            model |-> request[2], raised |-> r.raised, id |-> r.id,
                            before |-> instances]
    /\ UNCHANGED <<rag_agent_instance, agents_built, agents_used, orders, returns,
                   products>>
    /\ UNCHANGED <<agentVars, chunkVars, embedVars, storeVars>>

\* LLMProcessorFactory.clear_instances() (lines 200-202)
ClearInstancesCall ==
    /\ instances' = [k \in {} |-> 0]
    /\ handed_out' = {}
    /\ app_call' = [op |-> "clear_instances"]
    /\ UNCHANGED <<rag_agent_instance, agents_built, agents_used, orders, returns,
                   products>>
    /\ UNCHANGED <<agentVars, chunkVars, embedVars, storeVars>>

\* ecom_rag_tool(query, context) (ecom_rag_tool.py lines 21-46) in every
\* environment: MILVUS_PORT a number or not, DEFAULT_PROVIDER and
\* DEFAULT_MODEL, the client constructor raising or not (the environment is
\* read only when there is no shared agent yet).  The agent's process_query
\* returns its success or its error envelope (rag_agent.py lines 417-446)
EcomRagToolCall ==
    /\ \E query \in {"What is your return policy?"}, context \in {"None", "{user}"},
          outcome \in {"success", "error"},
          env \in { [port_ok |-> FALSE, provider |-> "openai", model |-> "gpt-3.5-turbo",
                     client_raises |-> FALSE] }
                  \cup IF rag_agent_instance # 0 THEN {}
                       ELSE { [port_ok |-> TRUE, provider |-> request[1],
                               model |-> request[2], client_raises |-> client_raises] :
                               request \in ProcessorRequests, client_raises \in BOOLEAN } :
         \E g \in { GetRagAgent(rag_agent_instance, agents_built, instances, env) } :
            /\ rag_agent_instance' = g.instance
            /\ agents_built' = IF g.agent \in {0, rag_agent_instance} THEN agents_built
                               ELSE agents_built + 1
            /\ agents_used' = IF g.raised THEN agents_used ELSE agents_used \cup {g.agent}
            /\ instances' = g.instances
            /\ handed_out' = IF g.processor # 0
                             THEN handed_out
                                  \cup { <<Lower(env.provider), env.model, g.processor>> }
                             ELSE handed_out
            /\ app_call' = [op |-> "ecom_rag_tool", query |-> query, context |-> context,
                            had_instance |-> rag_agent_instance # 0,
                            get_raised |-> g.raised, agent |-> g.agent,
                            returned |-> IF g.raised
                                         THEN [status |-> "error",
                                               error |-> "RAG tool error", query |-> query]
                                         ELSE [status |-> outcome, query |-> query]]
    /\ UNCHANGED <<orders, returns, products>>
    /\ UNCHANGED <<agentVars, chunkVars, embedVars, storeVars>>

\* process_query of the three agents on every string query the tools are
\* called with and every store the calls below can produce, computed once
ToolMemo ==
    LET More(stores) ==
            stores \cup { InitiateReturn(store, return_id, "ORD-001", "PROD-001", "Wrong size") :
                              store \in stores, return_id \in {"RET-A1B2C3", "RET-0F0F0F"} }
    IN  [ query \in { StrQuery(s) :
                        s \in { "Track my order ORD-001", "Check return status RET-001",
                                "Is product PROD-001 available?", "status of ret-a1b2c3",
                                "Laptop", "Start a return for ORD-001" } } |->
            [order |-> [ store \in {MockOrders} |-> OrderProcessQuery(store, query.s) ],
             returns |-> [ store \in More(More({MockReturns})) |->
                             ReturnProcessQuery(store, query.s) ],
             inventory |-> [ store \in {MockProducts} |->
                               ProductProcessQuery(store, query.s) ]] ]

\* order_tool(query, user_context) (order_tool.py lines 14-39): query.lower()
\* (transactional_agents.py line 170) raises for a query that is not a string
OrderToolCall ==
    /\ \E query \in DOMAIN ToolMemo \cup {NonStringQuery} :
         app_call' = [op |-> "order_tool", query |-> query,
                      returned |-> IF query.isstr THEN ToolMemo[query].order[orders]
                                   ELSE [status |-> "error",
                                         error |-> "Order tool error: " \o AttributeErrorLower,
                                         query |-> query]]
    /\ UNCHANGED <<instances, handed_out, rag_agent_instance, agents_built,
                   agents_used, orders, returns, products>>
    /\ UNCHANGED <<agentVars, chunkVars, embedVars, storeVars>>

\* returns_tool(query, user_context) (returns_tool.py lines 14-39)
ReturnsToolCall ==
    /\ \E query \in DOMAIN ToolMemo \cup {NonStringQuery} :
         app_call' = [op |-> "returns_tool", query |-> query,
                      returned |-> IF query.isstr THEN ToolMemo[query].returns[returns]
                                   ELSE [status |-> "error",
                                         error |-> "Returns tool error: " \o AttributeErrorLower,
                                         query |-> query]]
    /\ UNCHANGED <<instances, handed_out, rag_agent_instance, agents_built,
                   agents_used, orders, returns, products>>
    /\ UNCHANGED <<agentVars, chunkVars, embedVars, storeVars>>

\* inventory_tool(query, user_context) (inventory_tool.py lines 14-39)
InventoryToolCall ==
    /\ \E query \in DOMAIN ToolMemo \cup {NonStringQuery} :
         app_call' = [op |-> "inventory_tool", query |-> query,
                      returned |-> IF query.isstr THEN ToolMemo[query].inventory[products]
                                   ELSE [status |-> "error",
                                         error |-> "Inventory tool error: " \o AttributeErrorLower,
                                         query |-> query]]
    /\ UNCHANGED <<instances, handed_out, rag_agent_instance, agents_built,
                   agents_used, orders, returns, products>>
    /\ UNCHANGED <<agentVars, chunkVars, embedVars, storeVars>>

\* ReturnAgent.initiate_return(order_id, product_id, reason) (lines 270-296);
\* the return id is "RET-" and six hexadecimal digits of a random uuid
InitiateReturnCall ==
    /\ \E return_id \in {"RET-A1B2C3", "RET-0F0F0F"}, order_id \in {"ORD-001"} :
         /\ returns' = InitiateReturn(returns, return_id, order_id, "PROD-001", "Wrong size")
         /\ app_call' = [op |-> "initiate_return", return_id |-> return_id,
                         order_id |-> order_id, before |-> returns,
                         returned |-> [status |-> "success",
                                       data |-> [return_id |-> return_id,
                                                 status |-> "initiated"]]]
    /\ UNCHANGED <<instances, handed_out, rag_agent_instance, agents_built,
                   agents_used, orders, products>>
    /\ UNCHANGED <<agentVars, chunkVars, embedVars, storeVars>>

-----------------------------------------------------------------------------
(* The state machine of one RAGRetrieverAgent instance *)

NoSearch ==
    [raised |-> FALSE, error |-> "", results |-> <<>>, tier |-> "none", opened |-> FALSE,
     attempted |-> FALSE, searched |-> FALSE, failed |-> FALSE]
NoEnvelope == [status |-> "none"]

CallRecord(op, query, top_k, sr, sy, envelope) ==
    [op |-> op, query |-> query, top_k |-> top_k,
     raised |-> sr.raised, error |-> sr.error, results |-> sr.results, tier |-> sr.tier,
     attempted |-> sr.attempted, searched |-> sr.searched, failed |-> sr.failed,
     opened |-> sr.opened,
     answer |-> sy.answer, llmCalled |-> sy.llmCalled, llmFailed |-> sy.llmFailed,
     envelope |-> envelope]

LlmProcessors ==
    { [provider |-> "openai", client |-> "None"],
      [provider |-> "openai", client |-> "client"],
      [provider |-> "anthropic", client |-> "client"] }

\* an earlier search call found the remote tier failing
FailedBefore(before, last) == before \/ (last.attempted /\ last.failed)

\* the state after RAGRetrieverAgent.__init__ (lines 59-108), in every
\* environment: pymilvus importable or not, credentials, the connection
\* attempt, the collection, the embedding model, the LLM processor, the file.
\* creds is "uri_token" (MILVUS_URI and MILVUS_TOKEN set), "server" (a
\* non-local host or a user name) or "none"; a connection is attempted with
\* credentials of either kind, and the collection is fetched when connected
Init ==
    /\ \E milvusAvailable \in BOOLEAN, creds \in {"uri_token", "server", "none"},
          connectOk \in BOOLEAN, hasCollection \in {"yes", "no", "raise"} :
          \E connected \in {IF milvusAvailable
                             THEN IF creds = "uri_token" THEN connectOk
                                  ELSE IF creds = "server" THEN connectOk
                                  ELSE FALSE
                             ELSE FALSE} :
              /\ milvus_connected = connected
              /\ collection = IF connected
                              THEN GetOrCreateCollection(connected, hasCollection)
                              ELSE "None"
    /\ embedding_model \in {"None", "loaded"}
    /\ llm_processor \in LlmProcessors
    /\ db_file \in DbFiles
    /\ call = CallRecord("init", StrQuery(""), 0, NoSearch, NoSynth, NoEnvelope)
    /\ remoteFailedBefore = FALSE
    /\ ChunkIdle
    /\ AppIdle
    /\ EmbedIdle
    /\ StoreIdle

\* a call of search_documents(query, top_k)
SearchDocumentsCall ==
    \E query \in Queries, top_k \in TopKs, encode \in EncodeOutcomes,
       remote \in RemoteOutcomes :
        \E sr \in { SearchDocuments(query, top_k, milvus_connected, collection,
                                     embedding_model, encode, remote, db_file) } :
           /\ call' = CallRecord("search_documents", query, top_k, sr, NoSynth, NoEnvelope)
           /\ milvus_connected' = ConnectedAfterSearch(milvus_connected, sr)
           /\ remoteFailedBefore' = FailedBefore(remoteFailedBefore, call)
           /\ UNCHANGED <<collection, embedding_model, llm_processor, db_file>>
           /\ UNCHANGED <<chunkVars, embedVars, storeVars, appVars>>

\* a call of synthesize_answer(query, search_results)
SynthesizeAnswerCall ==
    \E query_s \in QueryStrings, results \in ResultLists, api \in {"ok", "raise"} :
        /\ call' = CallRecord("synthesize_answer", StrQuery(query_s), 0,
                              [NoSearch EXCEPT !.results = results],
                              SynthesizeAnswer(query_s, results, llm_processor, api),
                              NoEnvelope)
        /\ remoteFailedBefore' = FailedBefore(remoteFailedBefore, call)
        /\ UNCHANGED <<milvus_connected, collection, embedding_model, llm_processor,
                       db_file>>
        /\ UNCHANGED <<chunkVars, embedVars, storeVars, appVars>>

\* a call of process_query(query)
ProcessQueryCall ==
    \E query \in Queries, encode \in EncodeOutcomes, remote \in RemoteOutcomes,
       api \in {"ok", "raise"} :
        \E r \in { ProcessQueryOp(query, milvus_connected, collection, embedding_model,
                                   encode, remote, db_file, llm_processor, api) } :
           /\ call' = CallRecord("process_query", query, ProcessQueryTopK, r.search,
                                 r.synth, r.envelope)
           /\ milvus_connected' = ConnectedAfterSearch(milvus_connected, r.search)
           /\ remoteFailedBefore' = FailedBefore(remoteFailedBefore, call)
           /\ UNCHANGED <<collection, embedding_model, llm_processor, db_file>>
           /\ UNCHANGED <<chunkVars, embedVars, storeVars, appVars>>

Next ==
    \/ SearchDocumentsCall
    \/ SynthesizeAnswerCall
    \/ ProcessQueryCall

Spec == Init /\ [][Next]_vars

\* no RAGRetrieverAgent is in use: one fixed instance that is never called
AgentUncalled ==
    /\ milvus_connected = FALSE
    /\ collection = "None"
    /\ llm_processor = [provider |-> "openai", client |-> "None"]
    /\ db_file = [state |-> "absent", documents |-> <<>>]
    /\ call = CallRecord("init", StrQuery(""), 0, NoSearch, NoSynth, NoEnvelope)
    /\ remoteFailedBefore = FALSE

AgentIdle == AgentUncalled /\ embedding_model = "None"

(* One call of TextProcessor.chunk_text, statement by statement *)
InitChunk == AgentIdle /\ ChunkEntered /\ EmbedIdle /\ StoreIdle /\ AppIdle

NextChunk ==
    \/ ReturnEmpty
    \/ BeginLoop
    \/ CloseChunk
    \/ AppendSentence
    \/ FinalChunk

SpecChunk == InitChunk /\ [][NextChunk]_vars

(* Calls of generate_embedding on one RAGRetrieverAgent and one            *)
(* MilvusManager, in every configuration of the two                        *)
InitEmbed ==
    /\ AgentUncalled
    /\ embedding_model \in {"None", "loaded"}
    /\ ChunkIdle
    /\ AppIdle
    /\ mm_embedding_model \in {"None", "loaded"}
    /\ mm_embedding_dim \in {384, 128}
    /\ mm_llm_processor \in LlmProcessors
    /\ EmbedUncalled
    /\ StoreIdle

\* a call of RAGRetrieverAgent.generate_embedding(text)
AgentEmbeddingCall ==
    \E text \in EmbedTexts, encode \in EncodeOutcomes :
        \E r \in { GenerateEmbedding(text, embedding_model, encode) } :
           /\ embed_call' = EmbedCall("RAGRetrieverAgent", text, r)
           /\ embed_returned' = Returned(embed_returned, "RAGRetrieverAgent", text, r)
           /\ UNCHANGED <<mm_embedding_model, mm_embedding_dim, mm_llm_processor>>
           /\ UNCHANGED <<agentVars, chunkVars, storeVars, appVars>>

\* a call of MilvusManager.generate_embedding(text)
MilvusEmbeddingCall ==
    \E text \in EmbedTexts, encode \in EncodeOutcomes, remote \in EncodeOutcomes :
        \E r \in { MilvusGenerateEmbedding(text, mm_embedding_model, encode,
                                           mm_llm_processor, remote, mm_embedding_dim) } :
           /\ embed_call' = EmbedCall("MilvusManager", text, r)
           /\ embed_returned' = Returned(embed_returned, "MilvusManager", text, r)
           /\ UNCHANGED <<mm_embedding_model, mm_embedding_dim, mm_llm_processor>>
           /\ UNCHANGED <<agentVars, chunkVars, storeVars, appVars>>

NextEmbed ==
    \/ AgentEmbeddingCall
    \/ MilvusEmbeddingCall

SpecEmbed == InitEmbed /\ [][NextEmbed]_vars

-----------------------------------------------------------------------------
(* data/vector_database.json with any documents, written by                *)
(* create_mock_vector_database and searched by _mock_search_results        *)
InitStore ==
    /\ milvus_connected = FALSE
    /\ collection = "None"
    /\ embedding_model = "None"
    /\ llm_processor = [provider |-> "openai", client |-> "None"]
    /\ db_file \in StoreFiles \cup { [state |-> "absent", documents |-> <<>>] }
    /\ call = CallRecord("init", StrQuery(""), 0, NoSearch, NoSynth, NoEnvelope)
    /\ remoteFailedBefore = FALSE
    /\ ChunkIdle
    /\ AppIdle
    /\ EmbedIdle
    /\ StoreIdle

NextStore ==
    \/ CreateMockVectorDatabase
    \/ FileSearchCall

SpecStore == InitStore /\ [][NextStore]_vars

-----------------------------------------------------------------------------
(* One MilvusManager in every configuration, its data/mock_embeddings.json *)
(* and the Python processes that use it                                    *)
InitMilvus ==
    /\ AgentIdle
    /\ ChunkIdle
    /\ AppIdle
    /\ mm_embedding_model \in {"None", "loaded"}
    /\ mm_embedding_dim = 384
    /\ mm_llm_processor \in LlmProcessors
    /\ EmbedUncalled
    /\ mock_file \in { [state |-> "absent", chunks |-> <<>>],
                       [state |-> "corrupt", chunks |-> <<>>] }
    /\ mm_collection \in {"None", "loaded"}
    /\ hash_seed \in {0, 1}
    /\ store_call = NoStoreCall
    /\ top1_first = NoTop1

NextMilvus ==
    \/ InsertChunksCall
    \/ SearchSimilarCall
    \/ Restart

SpecMilvus == InitMilvus /\ [][NextMilvus]_vars

-----------------------------------------------------------------------------
(* The application in one Python process: the router, the processor        *)
(* registry, the tools and the transactional agents, called in any order   *)
InitApp == AgentIdle /\ ChunkIdle /\ EmbedIdle /\ StoreIdle /\ AppIdle

NextApp ==
    \/ RouteCall
    \/ GetProcessorCall
    \/ ClearInstancesCall
    \/ EcomRagToolCall
    \/ OrderToolCall
    \/ ReturnsToolCall
    \/ InventoryToolCall
    \/ InitiateReturnCall

SpecApp == InitApp /\ [][NextApp]_vars

-----------------------------------------------------------------------------
(* Properties of search_documents, synthesize_answer and process_query *)

IsSearch == call.op \in {"search_documents", "process_query"}

\* the string queries none of whose words occurs in a hardcoded record
NoDefaultMatchQueries ==
    { q \in QueryStrings :
        \A i \in 1..Len(mock_results) :
            ~AnyWordIn(Split(Lower(q)), Lower(mock_results[i].text)) }

\* the (query, file) pairs where the file is readable, every document has its
\* keys and some document scores above zero
FileMatchPairs ==
    { p \in QueryStrings \X DbFiles :
        /\ p[2].state = "ok"
        /\ \A i \in 1..Len(p[2].documents) : p[2].documents[i].haskeys
        /\ \E i \in 1..Len(p[2].documents) : DocScore(Split(Lower(p[1])), p[2].documents[i]) > 0 }

\* C1: for every string query, in every adapter state, search_documents
\* returns a non-empty list and does not raise; when no tier matches anything
\* (the answer is neither remote nor from the file, and no query word occurs in
\* a hardcoded record) it returns exactly the first hardcoded record.
C1_SearchNeverEmpty ==
    (call.op = "search_documents" /\ call.query.isstr) =>
        /\ ~call.raised
        /\ call.results # <<>>
        /\ (call.tier \notin {"remote", "file"} /\ call.query.s \in NoDefaultMatchQueries)
              => call.results = <<mock_results[1]>>

\* C1 witness: the remote tier raised, the file holds documents none of which
\* matches, and the call returned the first hardcoded record
C1_Witness ==
    /\ call.op = "search_documents"
    /\ call.query = StrQuery("zzz_no_match_xyz")
    /\ call.attempted /\ call.failed
    /\ db_file.state = "ok" /\ Len(db_file.documents) = 4
    /\ call.results = <<mock_results[1]>>

\* C2: whenever the remote tier was tried for a string query and did not
\* answer (it raised or had no hit), nothing is raised and the call returns
\* the file tier's results if the file has a matching document, and hardcoded
\* records only when the file is missing, fails or matches nothing.
C2_FallsToNextTier ==
    (IsSearch /\ call.query.isstr /\ call.attempted /\ call.tier # "remote") =>
        /\ ~call.raised
        /\ IF <<call.query.s, db_file>> \in FileMatchPairs
           THEN /\ call.tier = "file"
                /\ call.results # <<>>
                /\ \A i \in 1..Len(call.results) :
                      \E j \in 1..Len(db_file.documents) :
                          /\ call.results[i].id = db_file.documents[j].id
                          /\ call.results[i].text = db_file.documents[j].text
           ELSE /\ call.tier = "default"
                /\ call.results # <<>>
                /\ \A i \in 1..Len(call.results) :
                      \E j \in 1..Len(mock_results) : call.results[i] = mock_results[j]

\* C2 witness: collection.search raised and the call answered from the file
C2_Witness ==
    /\ call.op = "search_documents" /\ call.searched /\ call.failed
    /\ call.tier = "file" /\ call.results # <<>>

\* C3 as stated: once a search call found the remote tier failing, no later
\* search call on the instance attempts the remote tier.
C3_DegradedIsOneWay == (IsSearch /\ remoteFailedBefore) => ~call.attempted

\* C3 amended: a search call never changes milvus_connected or collection,
\* and every search call on an instance that has milvus_connected and a
\* collection attempts the remote tier, also after an earlier call found it
\* failing; an instance without them never attempts it.
C3_NoDegradeOnSearch ==
    [][ /\ milvus_connected' = milvus_connected
        /\ collection' = collection
        /\ (call'.op \in {"search_documents", "process_query"}) =>
              (call'.attempted <=> (milvus_connected /\ collection = "loaded")) ]_vars

\* C3 witness: a search call attempts the remote tier although an earlier
\* search call on the instance found it failing
C3_Witness ==
    /\ call.op = "search_documents" /\ remoteFailedBefore
    /\ call.attempted /\ call.searched

\* C4: process_query never raises: it returns an envelope that is either a
\* success (status, answer, sources, query) or an error (status, error,
\* query); if the search stage raised, the envelope is the error one with the
\* exception's message and the original query.
C4_EnvelopeAlways ==
    call.op = "process_query" =>
        /\ \/ /\ call.envelope.status = "success"
              /\ DOMAIN call.envelope = {"status", "answer", "sources", "query"}
              /\ call.envelope.query = call.query
              /\ ~call.raised
           \/ /\ call.envelope.status = "error"
              /\ DOMAIN call.envelope = {"status", "error", "query"}
              /\ call.envelope.query = call.query
        /\ call.raised =>
              /\ call.envelope.status = "error"
              /\ call.envelope.error = call.error
              /\ call.envelope.query = call.query

\* C4 witness: the search stage raised and process_query returned the error
\* envelope
C4_Witness ==
    /\ call.op = "process_query" /\ call.raised
    /\ call.envelope.status = "error"
    /\ call.envelope.error = "'int' object has no attribute 'lower'"

\* C5 as stated: a query that is no string is rejected before any backend is
\* touched: collection.search is not called and the local file is not opened.
C5_FailsFast ==
    (IsSearch /\ ~call.query.isstr) =>
        (call.raised /\ ~call.searched /\ ~call.opened)

\* C9: synthesize_answer(query, []) returns the fixed no-information message
\* and does not call the text-generation backend.
C9_NoInformation ==
    (call.op = "synthesize_answer" /\ call.results = <<>>) =>
        /\ call.answer = "I couldn't find any relevant information for your query. Please contact customer service for assistance."
        /\ ~call.llmCalled
        /\ ~call.raised

\* C9 witness: synthesize_answer was called with a query and no result
C9_Witness ==
    /\ call.op = "synthesize_answer" /\ call.results = <<>>
    /\ call.query.s = "What is your return policy?"
    /\ call.answer # ""

\* C10 as stated: when the text-generation backend failed over a non-empty
\* result list, the answer is the top result's text behind the attribution
\* phrase; in every case the answer is non-empty.
C10_AttributionFallback ==
    call.op = "synthesize_answer" =>
        /\ call.answer # ""
        /\ (call.results # <<>> /\ call.llmFailed) =>
              call.answer = "Based on our documentation: " \o call.results[1].text

\* C12: every result that search_documents returns, from whichever tier, has
\* a similarity_score between 0 and 1.  The file tier caps its scores at 1.0
\* and the hardcoded records lie inside the range, but the remote tier hands
\* float(hit.score) on as it is.
C12_ScoreWithinUnit ==
    (IsSearch /\ ~call.raised) =>
        \A i \in 1..Len(call.results) :
            /\ 0 <= call.results[i].similarity_score
            /\ call.results[i].similarity_score <= 100

\* C13: search_documents(query, top_k) returns at most top_k results.  Only
\* the remote tier is given top_k; the file tier and the hardcoded tier
\* return up to three results whatever top_k is.
C13_AtMostTopK ==
    (IsSearch /\ ~call.raised) => Len(call.results) <= call.top_k

\* the "sources" entry process_query is to build for a search result
C14_Projection(result) ==
    [id |-> result.id,
     text |-> IF Len(result.text) <= 200 THEN result.text
              ELSE SubSeq(result.text, 1, 200) \o "...",
     metadata |-> result.metadata,
     similarity_score |-> result.similarity_score]

\* C14: in a success envelope of process_query, sources has one entry for
\* each search result, in the order of the results; the entry's text is the
\* result's text when that has at most 200 characters and its first 200
\* characters followed by "..." otherwise; id, metadata and similarity_score
\* are the result's.
C14_SourcesProjection ==
    (call.op = "process_query" /\ call.envelope.status = "success") =>
        /\ Len(call.envelope.sources) = Len(call.results)
        /\ \A i \in 1..Len(call.results) :
              call.envelope.sources[i] = C14_Projection(call.results[i])

\* C14 witness: a success envelope over four results, one with a text of
\* exactly 200 characters that is kept and one with 201 characters that is cut
C14_Witness ==
    /\ call.op = "process_query" /\ call.envelope.status = "success"
    /\ Len(call.results) = 4
    /\ call.results[3].text = LongText200
    /\ call.envelope.sources[3].text = LongText200
    /\ call.results[4].text = LongText201
    /\ Len(call.envelope.sources[4].text) = 203

-----------------------------------------------------------------------------
(* Properties of the local stores *)

\* the place of the record with this id in a list of stored records
C11_Position(records, id) == CHOOSE i \in 1..Len(records) : records[i].id = id

\* the records the tier of the last _mock_search_results call ranked
C11_Stored == IF store_call.tier = "file" THEN db_file.documents ELSE mock_results

\* C11: the results a search returns are sorted by non-increasing
\* similarity_score, and results of equal score are in the order in which
\* their records are stored (here for the file tier and the hardcoded tier
\* of _mock_search_results)
C11_SortedStable ==
    (store_call.op = "_mock_search_results" /\ ~store_call.raised) =>
        \A i, j \in DOMAIN store_call.results :
            i < j =>
                /\ store_call.results[i].similarity_score
                       >= store_call.results[j].similarity_score
                /\ store_call.results[i].similarity_score
                       = store_call.results[j].similarity_score
                   => C11_Position(C11_Stored, store_call.results[i].id)
                          < C11_Position(C11_Stored, store_call.results[j].id)

\* the documents of the store that are tagged topic "returns" and contain
\* "return policy"
C15_Targets ==
    { i \in DOMAIN db_file.documents :
        /\ db_file.documents[i].metadata.topic = "returns"
        /\ Contains(Lower(db_file.documents[i].text), "return policy") }

\* the last call searched the readable store for "What is your return policy?"
C15_Scenario ==
    /\ store_call.op = "_mock_search_results"
    /\ store_call.query = StrQuery("What is your return policy?")
    /\ db_file.state = "ok"
    /\ C15_Targets # {}

\* C15: a document tagged "returns" that contains "return policy"
\* is ranked first with a nonzero score, whatever else the store holds
C15_TargetRankedFirst ==
    C15_Scenario =>
        /\ ~store_call.raised
        /\ store_call.results # <<>>
        /\ \E i \in C15_Targets :
              store_call.results[1].id = db_file.documents[i].id
        /\ store_call.results[1].similarity_score > 0

\* the last call is a search of a written store that returned every match,
\* no two of them with the same score
C17_SearchedWithoutTie ==
    /\ store_call.op \in {"search_similar", "_mock_search_results"}
    /\ ~store_call.raised
    /\ store_call.tier \in {"mock_file", "file"}
    /\ store_call.results # <<>>
    /\ store_call.who = "MilvusManager" => Len(store_call.results) < store_call.top_k
    /\ \A i, j \in DOMAIN store_call.results :
          i # j => store_call.results[i].similarity_score
                       # store_call.results[j].similarity_score

\* C17: however often the same documents have been written to a local
\* store, the store holds them once, and a query whose keyword scores have
\* no tie returns the same top-1 id as when it was first run on the store
C17_Top1Stable ==
    /\ mock_file.state = "ok" =>
          /\ Len(mock_file.chunks) = Len(InsertedChunks)
          /\ \A i \in DOMAIN mock_file.chunks :
                /\ mock_file.chunks[i].chunk_id = InsertedChunks[i].chunk_id
                /\ mock_file.chunks[i].text = InsertedChunks[i].text
                /\ mock_file.chunks[i].metadata = InsertedChunks[i].metadata
    /\ (/\ C17_SearchedWithoutTie
        /\ top1_first.who = store_call.who
        /\ top1_first.query = store_call.query)
       => store_call.results[1].id = top1_first.id

\* C18: a search_similar call with a string query does not raise and does
\* not return an empty list: an empty or failing remote search and a mock
\* file without a match fall through to the next tier
C18_FallsThrough ==
    (store_call.op = "search_similar" /\ store_call.query.isstr) =>
        /\ ~store_call.raised
        /\ store_call.results # <<>>

-----------------------------------------------------------------------------
(* Properties of chunk_text *)

\* C6: every chunk chunk_text has emitted has a word_count of at least
\* min_chunk_size and at most max_chunk_size, whether the chunk starts with
\* an overlap window or not and however long the sentences of the text are.
\* The lower bound holds; the upper bound does not: a sentence is added to an
\* empty buffer, or to the overlap window, without any test of its length.
C6_ChunkSizeWithinRange ==
    \A i \in 1..Len(chunks) :
        /\ min_chunk_size <= chunks[i].word_count
        /\ chunks[i].word_count <= max_chunk_size

\* the text is sentences that add up to exactly 500 words followed by one
\* last sentence of 10 words, and chunk_text has returned
C16_Scenario ==
    /\ chunk_pc = "done"
    /\ Len(sentences) >= 2
    /\ sentences[Len(sentences) - 1] [1].to = 500
    /\ sentences[Len(sentences)] = << [from |-> 501, to |-> 510] >>

\* C16 as stated: in that scenario chunk_text returns two chunks, the first
\* of the 500 words and the second holding the new sentence.
C16_TwoChunks ==
    C16_Scenario =>
        /\ Len(chunks) = 2
        /\ chunks[1].word_count = 500
        /\ chunks[2].text[Len(chunks[2].text)].to = 510

\* C16: in that scenario the 500-word chunk is closed before the new sentence
\* is appended, so that no 510-word chunk exists; the new sentence and the
\* 50-word overlap form a buffer of 60 words, which is below min_chunk_size
\* and is dropped at the end of the text: chunk_text returns one chunk.
C16_ClosesBeforeAppending ==
    C16_Scenario =>
        /\ Len(chunks) = 1
        /\ chunks[1].word_count = 500
        /\ chunks[1].text = << [from |-> 1, to |-> 500] >>
        /\ current_chunk = << << [from |-> 451, to |-> 500] >>,
                              << [from |-> 501, to |-> 510] >> >>
        /\ current_word_count = 60

\* C16 witness: sentences of 200 and 300 words, then the sentence of 10 words
C16_Witness ==
    /\ C16_Scenario
    /\ Len(sentences) = 3
    /\ sentences[1] = << [from |-> 1, to |-> 200] >>
    /\ Len(chunks) = 1

\* the first n words of a word sequence
RECURSIVE C19_FirstWords(_, _)
C19_FirstWords(runs, n) ==
    IF runs = <<>> \/ n = 0 THEN <<>>
    ELSE IF RunLen(Head(runs)) >= n
         THEN << [from |-> Head(runs).from, to |-> Head(runs).from + n - 1] >>
         ELSE << Head(runs) >> \o C19_FirstWords(Tail(runs), n - RunLen(Head(runs)))

\* C19: of two chunks emitted one after the other, the later one begins with
\* the last overlap_words words of the earlier one.  This fails when a buffer
\* between the two was closed below min_chunk_size and not emitted: the later
\* chunk then begins with the last words of the dropped buffer.
C19_OverlapCarried ==
    \A i \in 1..(Len(chunks) - 1) :
        Merge(C19_FirstWords(chunks[i + 1].text, overlap_words))
            = Merge(LastWords(chunks[i].text, overlap_words))

\* the number written at the end of a chunk_id
C20_Digit(c) == CHOOSE d \in 0..9 : SubSeq(Digits, d + 1, d + 1) = c
C20_IdNumber(id) ==
    100 * C20_Digit(SubSeq(id, Len(id) - 2, Len(id) - 2))
    + 10 * C20_Digit(SubSeq(id, Len(id) - 1, Len(id) - 1))
    + C20_Digit(SubSeq(id, Len(id), Len(id)))

\* C20: the chunks one chunk_text call has emitted have pairwise distinct
\* chunk_ids; the i-th emitted chunk carries the sequence number i in its
\* chunk_id, and the chunk_number of its metadata is that number.
C20_ChunkIdsDistinct ==
    /\ \A i \in 1..Len(chunks), j \in 1..Len(chunks) :
          i # j => chunks[i].chunk_id # chunks[j].chunk_id
    /\ \A i \in 1..Len(chunks) :
          /\ C20_IdNumber(chunks[i].chunk_id) = i
          /\ chunks[i].chunk_number = i
          /\ chunks[i].chunk_id = FilenameOf(metadata) \o "_00" \o SubSeq(Digits, i + 1, i + 1)

\* C20 witness: a call that has returned three chunks, the last of them
\* emitted after the loop
C20_Witness ==
    /\ chunk_pc = "done"
    /\ Len(chunks) = 3
    /\ chunks[3].chunk_id = "return_policy.pdf_003"

\* the number of words of the cleaned text
C21_TotalWords == CountWords(JoinSplit(sentences))

\* C21: for a blank text, a text without a sentence after cleaning and a
\* text of fewer than min_chunk_size words, chunk_text emits no chunk at any
\* point of the call and returns the empty list
C21_ShortTextEmpty ==
    (text_blank \/ C21_TotalWords < min_chunk_size) => chunks = <<>>

\* C21 witness: a text of two sentences and 160 words, for which chunk_text
\* has returned the empty list
C21_Witness ==
    /\ chunk_pc = "done"
    /\ ~text_blank
    /\ Len(sentences) = 2
    /\ C21_TotalWords = 160
    /\ chunks = <<>>

\* the word w is one of the words of a word sequence
C25_Covers(runs, w) == \E k \in DOMAIN runs : runs[k].from <= w /\ w <= runs[k].to

\* C25: when chunk_text has returned, every word of the cleaned text is in
\* an emitted chunk or in the buffer that was left at the end of the text
\* (the trailing remainder).  This fails when a sentence overflows a buffer
\* of fewer than min_chunk_size words: the buffer is replaced by its last
\* overlap_words words and the sentence, and its other words are in no chunk.
C25_OnlyRemainderDropped ==
    chunk_pc = "done" =>
        \A w \in 1..C21_TotalWords :
            \/ \E i \in DOMAIN chunks : C25_Covers(chunks[i].text, w)
            \/ C25_Covers(JoinSplit(current_chunk), w)

\* the number of words of a chunk's text
RECURSIVE C30_Words(_)
C30_Words(runs) ==
    IF runs = <<>> THEN 0 ELSE (Head(runs).to - Head(runs).from + 1) + C30_Words(Tail(runs))

\* C30: the word_count of every emitted chunk is the number of words of its
\* text
C30_WordCountMatchesText ==
    \A i \in DOMAIN chunks : chunks[i].word_count = C30_Words(chunks[i].text)

\* C30 witness: chunk_text has returned a first chunk built by accumulation
\* of two sentences and a second chunk that starts with an overlap window
C30_Witness ==
    /\ chunk_pc = "done"
    /\ Len(chunks) >= 2
    /\ chunks[1].text = << [from |-> 1, to |-> 500] >>
    /\ Len(sentences[1]) = 1 /\ sentences[1][1].to = 200
    /\ chunks[2].text[1].from = 451
    /\ chunks[2].word_count > overlap_words

-----------------------------------------------------------------------------
(* Properties of generate_embedding *)

\* C7: two generate_embedding calls on the same instance and the same text
\* that were made with the instance's embedding model unavailable or raising
\* have returned the same vector, whatever was called before them.  This
\* holds for RAGRetrieverAgent; MilvusManager hands the text to its LLM
\* processor, which returns the vector of a remote service when the service
\* answers and the hash-based vector when it does not.
C7_FallbackDeterministic ==
    \A a \in embed_returned, b \in embed_returned :
        (a[1] = b[1] /\ a[2] = b[2]) => a[3] = b[3]

\* C8: a vector that generate_embedding returns with the instance's model
\* unavailable or raising has 384 values for RAGRetrieverAgent and
\* embedding_dim values for MilvusManager.  The LLM processor returns 384
\* hash-based values, or the remote service's 1536, whatever embedding_dim is.
C8_FallbackDimension ==
    (embed_call.fallback /\ ~embed_call.raised) =>
        Len(embed_call.vector) = IF embed_call.who = "MilvusManager"
                                     THEN mm_embedding_dim
                                     ELSE HashEmbeddingDim

-----------------------------------------------------------------------------
(* Properties of the application *)

C24_RoutedToItsHandler ==
    app_call.op = "process_query" =>
        /\ app_call.query = "Track my order ORD-001"
               => app_call.returned.tool = "order_tool"
        /\ app_call.query = "Check return status RET-001"
               => app_call.returned.tool = "returns_tool"
        /\ app_call.query = "Is product PROD-001 available?"
               => app_call.returned.tool = "inventory_tool"

C27_OneProcessorPerKey ==
    /\ \A k1, k2 \in DOMAIN instances :
          (Lower(k1[1]) = Lower(k2[1]) /\ k1[2] = k2[2]) => k1 = k2
    /\ \A h1, h2 \in handed_out : (h1[1] = h2[1] /\ h1[2] = h2[2]) => h1[3] = h2[3]
    /\ (app_call.op = "get_processor"
        /\ Lower(app_call.provider) \notin {"openai", "anthropic"})
           => (app_call.raised = "ValueError" /\ instances = app_call.before)

\* get_processor("OpenAI", ..) has returned the processor that an earlier call
\* registered for ("openai", ..), and the registry holds a second processor
C27_Witness ==
    /\ app_call.op = "get_processor"
    /\ app_call.provider = "OpenAI"
    /\ app_call.raised = "None"
    /\ <<"openai", "gpt-3.5-turbo">> \in DOMAIN app_call.before
    /\ app_call.id = instances[<<"openai", "gpt-3.5-turbo">>].id
    /\ Cardinality(DOMAIN instances) = 2

\* what a call of ecom_rag_tool has returned and left behind
C22_Envelope ==
    /\ app_call.op = "ecom_rag_tool" =>
          /\ app_call.returned.status \in {"success", "error"}
          /\ app_call.returned.query = app_call.query
          /\ app_call.get_raised =>
                (app_call.returned.status = "error" /\ rag_agent_instance = 0)
          /\ ~app_call.get_raised =>
                (rag_agent_instance # 0 /\ app_call.agent = rag_agent_instance)
    /\ agents_used \subseteq {rag_agent_instance} \ {0}

\* C22: ecom_rag_tool returns the response envelope (status "success" or
\* "error", and the query) whatever happens; when obtaining the shared agent
\* fails the status is "error" and the shared instance stays unset, and a later
\* call constructs the agent; once the shared instance is set it never changes
\* and every call hands its query to that agent.
C22_NeverRaises ==
    [][ /\ C22_Envelope'
        /\ rag_agent_instance # 0 => rag_agent_instance' = rag_agent_instance
        /\ (rag_agent_instance = 0 /\ app_call' # app_call
            /\ app_call'.op = "ecom_rag_tool" /\ ~app_call'.get_raised)
               => (rag_agent_instance' # 0 /\ ~app_call'.had_instance) ]_vars

\* a later call of ecom_rag_tool has used the shared agent that an earlier call
\* constructed
C22_Witness ==
    /\ app_call.op = "ecom_rag_tool"
    /\ app_call.had_instance
    /\ app_call.agent = 1
    /\ rag_agent_instance = 1
    /\ agents_used = {1}
    /\ app_call.returned.status = "success"

\* C29: no call of order_tool, returns_tool or inventory_tool (and so no
\* process_query of an agent) changes the orders, the returns or the products;
\* the only call that changes a store is initiate_return, which stores a return
\* with status "initiated" under the new id and leaves every other return as it
\* was, and get_return_status reports the new return as "initiated".
C29_QueriesReadOnly ==
    [][ /\ orders' = orders
        /\ products' = products
        /\ app_call'.op # "initiate_return" => returns' = returns
        /\ (app_call' # app_call /\ app_call'.op = "initiate_return") =>
              LET id == app_call'.return_id
              IN  /\ DOMAIN returns' = DOMAIN returns \cup {id}
                  /\ \A k \in DOMAIN returns \ {id} : returns'[k] = returns[k]
                  /\ returns'[id].status = "initiated"
                  /\ returns'[id].order_id = app_call'.order_id
                  /\ GetReturnStatus(returns', id).status = "success"
                  /\ GetReturnStatus(returns', id).data.status = "initiated" ]_vars

\* returns_tool has reported the status of a return that initiate_return added
C29_Witness ==
    /\ app_call.op = "returns_tool"
    /\ app_call.query = StrQuery("status of ret-a1b2c3")
    /\ app_call.returned.status = "success"
    /\ app_call.returned.data.return_id = "RET-A1B2C3"
    /\ app_call.returned.data.status = "initiated"
    /\ orders = MockOrders
    /\ products = MockProducts

====
